---- MODULE Spec2Model ----
(***************************************************************************)
(* A model of the bike-safety analysis tools:                              *)
(*   src/crash_data_diagnostic.py  (haversine, load_crash_data,            *)
(*                                  clean_crash_data, analyze_proximity,   *)
(*                                  main's menu loop)                      *)
(*   src/citibike_diagnostic.py    (inspect_api_data's combined dataset)   *)
(*   src/citibike_analyzer_v2.py   (the station analyzer's menu loop)      *)
(*                                                                         *)
(* Decoded JSON documents are modelled structurally.  Scalars are tagged   *)
(* records (number, numeric string, other string, null); a pandas          *)
(* DataFrame is a sequence of column labels, which may repeat, and a       *)
(* sequence of rows of cells.  Coordinates are integers in units of 1e-4   *)
(* degree and distances are integers in centimetres.  The inputs are       *)
(* RFC 8259 JSON, so every number is finite, and the cells of a crash      *)
(* record are scalars.                                                     *)
(***************************************************************************)
EXTENDS Integers, Sequences, FiniteSets, TLC

VARIABLES
  pc,            \* position of the running program or harness
  crash_data,    \* main: the decoded crash document (clean_crash_data's argument)
  frame,         \* the DataFrame object built by clean_crash_data (mutated in place)
  crashes_df,    \* main's local variable: "frame" (a reference), "None" or "unset"
  stations,      \* the loaded station collection
  exc,           \* the exception that left the last call, "none" when it returned
  out,           \* diagnostics printed so far
  hav_calls,     \* calls of haversine made by the last analyze_proximity
  stats,         \* band counts printed by the last analyze_proximity
  extra,         \* proximity harness: a further station and the second run's result
  feeds,         \* inspect_api_data: the information and the status feed
  combined,      \* inspect_api_data: combined_stations, once built
  load,          \* load_crash_data: its arguments, what the network and the file give, its effects
  hav            \* haversine harness: two points and the distances computed between them

vars == <<pc, crash_data, frame, crashes_df, stations, exc, out, hav_calls,
          stats, extra, feeds, combined, load, hav>>

-----------------------------------------------------------------------------
(* JSON scalars and pandas cells *)

Num(n) == [k |-> "num", n |-> n]
NumStr(n) == [k |-> "numstr", n |-> n]
Junk == [k |-> "junk", n |-> 0]
Null == [k |-> "null", n |-> 0]
NaN == [k |-> "nan", n |-> 0]
Absent == [k |-> "absent", n |-> 0]
\* A string that holds a date (n: its month), a parsed date, and pandas' NaT.
DateStr(n) == [k |-> "datestr", n |-> n]
Datetime(n) == [k |-> "datetime", n |-> n]
NaT == [k |-> "nat", n |-> 0]

\* pd.to_numeric(..., errors='coerce') on one cell: a number stays, a string
\* holding a numeral is parsed, everything else becomes NaN.
ToNumericRaising(v) ==
  IF v.k = "num" THEN v
  ELSE IF v.k = "numstr" THEN Num(v.n)
  ELSE IF v.k = "junk" THEN [k |-> "raise", n |-> 0]
  ELSE NaN

to_numeric(v) ==
  IF v.k = "num" THEN v
  ELSE IF v.k = "numstr" THEN Num(v.n)
  ELSE NaN

\* series > 0 on one cell: a comparison with NaN is False.
Gt0(v) == v.k = "num" /\ v.n > 0

\* series + series on one cell: NaN propagates.
AddCells(a, b) == IF a.k = "num" /\ b.k = "num" THEN Num(a.n + b.n) ELSE NaN

isna(v) == v.k \in {"nan", "null"}

-----------------------------------------------------------------------------
(* DataFrames *)

EmptyFrame == [cols |-> <<>>, rows |-> <<>>]

\* No band counts printed.
NoStats == [within_100m |-> 0, within_250m |-> 0, within_500m |-> 0, total |-> 0]

HasCol(df, c) == \E i \in 1..Len(df.cols) : df.cols[i] = c

ColCount(df, c) == Cardinality({i \in 1..Len(df.cols) : df.cols[i] = c})

ColIdx(df, c) == CHOOSE i \in 1..Len(df.cols) : df.cols[i] = c

Cell(df, row, c) == row[ColIdx(df, c)]

SetColAppend(df, c, vals) ==
  [cols |-> Append(df.cols, c),
   rows |-> [r \in 1..Len(df.rows) |-> Append(df.rows[r], vals[r])]]

\* df[c] = vals : replaces the column when the label exists, appends it otherwise.
SetCol(df, c, vals) ==
  IF HasCol(df, c)
  THEN [df EXCEPT !.rows = [r \in 1..Len(df.rows) |->
                              [df.rows[r] EXCEPT ![ColIdx(df, c)] = vals[r]]]]
  ELSE [cols |-> Append(df.cols, c),
        rows |-> [r \in 1..Len(df.rows) |-> Append(df.rows[r], vals[r])]]

Column(df, c) == [r \in 1..Len(df.rows) |-> Cell(df, df.rows[r], c)]

PosNamesFromOne == <<"1", "2", "3", "4", "5", "6", "7", "8">>

\* Positional labels of a frame built without column names (pandas uses the
\* integers 0, 1, ...; no string label equals one of them).
PosNames == <<"0", "1", "2", "3", "4", "5", "6", "7">>

PairKeys(pairs) == [i \in 1..Len(pairs) |-> pairs[i][1]]

InSeq(x, s) == \E i \in 1..Len(s) : s[i] = x

RECURSIVE AppendNew(_, _)
AppendNew(acc, ks) ==
  IF ks = <<>> THEN acc
  ELSE AppendNew(IF InSeq(Head(ks), acc) THEN acc ELSE Append(acc, Head(ks)), Tail(ks))

\* Column labels of pd.DataFrame(list of dicts): the keys in order of first appearance.
RECURSIVE KeysInOrder(_, _)
KeysInOrder(elems, acc) ==
  IF elems = <<>> THEN acc
  ELSE KeysInOrder(Tail(elems), AppendNew(acc, PairKeys(Head(elems).pairs)))

Lookup(pairs, key) ==
  IF \E i \in 1..Len(pairs) : pairs[i][1] = key
  THEN pairs[CHOOSE i \in 1..Len(pairs) : pairs[i][1] = key][2]
  ELSE NaN

MaxOf(S) == IF S = {} THEN 0 ELSE CHOOSE x \in S : \A y \in S : y <= x

NoNames == [given |-> FALSE, names |-> <<>>]

\* pd.DataFrame(value, columns=names) for the shapes a decoded document can have.
DataFrame(jv, names) ==
  IF jv.t = "null" THEN [exc |-> "none", df |-> EmptyFrame]
  ELSE IF jv.t \in {"scalar", "dict_of_scalars"}
    THEN [exc |-> "ValueError", df |-> EmptyFrame]
  ELSE IF jv.t = "dict_of_lists"
    THEN [exc |-> "none",
          df |-> [cols |-> <<"stations">>,
                  rows |-> [r \in 1..Len(jv.elems) |-> <<Junk>>]]]
  ELSE IF jv.elems = <<>>
    THEN [exc |-> "none",
          df |-> [cols |-> IF names.given THEN names.names ELSE <<>>, rows |-> <<>>]]
  ELSE IF \A i \in 1..Len(jv.elems) : jv.elems[i].t = "dict"
    THEN LET cols == KeysInOrder(jv.elems, <<>>)
         IN [exc |-> "none",
             df |-> [cols |-> cols,
                     rows |-> [r \in 1..Len(jv.elems) |->
                                 [j \in 1..Len(cols) |-> Lookup(jv.elems[r].pairs, cols[j])]]]]
  ELSE IF \A i \in 1..Len(jv.elems) : jv.elems[i].t = "list"
    THEN LET w == MaxOf({Len(jv.elems[i].vals) : i \in 1..Len(jv.elems)})
             cols == IF names.given THEN names.names ELSE SubSeq(PosNames, 1, w)
         IN IF names.given /\ Len(names.names) # w
            THEN [exc |-> "ValueError", df |-> EmptyFrame]
            ELSE [exc |-> "none",
                  df |-> [cols |-> cols,
                          rows |-> [r \in 1..Len(jv.elems) |->
                                      [j \in 1..w |->
                                         IF j <= Len(jv.elems[r].vals)
                                         THEN jv.elems[r].vals[j] ELSE NaN]]]]
  ELSE [exc |-> "none",
        df |-> [cols |-> SubSeq(PosNames, 1, 1),
                rows |-> [r \in 1..Len(jv.elems) |-> <<Junk>>]]]

-----------------------------------------------------------------------------
(* Decoded documents *)

JList(elems) == [t |-> "list", elems |-> elems]
JScalar == [t |-> "scalar", elems |-> <<>>]
JNull == [t |-> "null", elems |-> <<>>]
JDictOfScalars == [t |-> "dict_of_scalars", elems |-> <<>>]
JDictOfLists(elems) == [t |-> "dict_of_lists", elems |-> elems]

DictItem(pairs) == [t |-> "dict", pairs |-> pairs, vals |-> <<>>]
ListItem(vals) == [t |-> "list", pairs |-> <<>>, vals |-> vals]
ScalarItem == [t |-> "scalar", pairs |-> <<>>, vals |-> <<>>]

\* A decoded document: a list (items), a dict (its keys, and the values under
\* 'data', 'columns' and 'rows'), a string or null.
ListDoc(items) ==
  [type |-> "list", keys |-> {}, items |-> items,
   data |-> JNull, columns |-> JNull, rows |-> JNull]
DictDoc(keys, data, columns, rows) ==
  [type |-> "dict", keys |-> keys, items |-> <<>>,
   data |-> data, columns |-> columns, rows |-> rows]
StrDoc ==
  [type |-> "str", keys |-> {}, items |-> <<>>,
   data |-> JNull, columns |-> JNull, rows |-> JNull]
NoneDoc ==
  [type |-> "null", keys |-> {}, items |-> <<>>,
   data |-> JNull, columns |-> JNull, rows |-> JNull]

\* Python truthiness of a decoded document ("if not crash_data").
Truthy(doc) ==
  CASE doc.type = "list" -> doc.items # <<>>
    [] doc.type = "dict" -> doc.keys # {}
    [] doc.type = "str" -> TRUE
    [] OTHER -> FALSE

-----------------------------------------------------------------------------
(* clean_crash_data *)

MsgNoRows == "Error: Could not find usable data rows"
MsgBadFormat == "Error: Unexpected crash data format"
MsgBadType == "Error: Unexpected data type"
MsgNoColumnNames == "Could not extract column names from 'columns' field"
MsgMissing == "Warning: Missing required columns"
MsgStillMissing == "ERROR: Still missing required columns after inference"
MsgCleaned == "Cleaned data contains cyclist-involved crashes"
MsgDateWarning == "Warning: Could not parse crash dates"

ColumnMappingBack ==
  ("lat" :> "latitude") @@ ("latitude" :> "lat") @@ ("longitude" :> "lon") @@
  ("number_of_cyclist_injured" :> "cyclists_injured") @@
  ("number_of_cyclist_killed" :> "cyclists_killed")

column_mapping ==
  ("crash_date" :> "date") @@ ("crash_time" :> "time") @@
  ("latitude" :> "lat") @@ ("longitude" :> "lon") @@
  ("number_of_cyclist_injured" :> "cyclists_injured") @@
  ("number_of_cyclist_killed" :> "cyclists_killed") @@
  ("borough" :> "borough") @@ ("zip_code" :> "zip") @@
  ("on_street_name" :> "street") @@ ("cross_street_name" :> "cross_street") @@
  ("contributing_factor_vehicle_1" :> "factor1")

required_columns == <<"lat", "lon", "cyclists_injured", "cyclists_killed">>

HasName(col) == col.t = "dict" /\ InSeq("name", PairKeys(col.pairs))

Ctx(e, returned, df, o) == [exc |-> e, returned |-> returned, df |-> df, out |-> o]

\* Lines 83-118: the frame built from the document, an early return of an
\* empty frame, or the exception the DataFrame constructor raises.
BuildFrame(crashes) ==
  IF crashes.type = "list"
  THEN LET r == DataFrame(JList(crashes.items), NoNames)
       IN Ctx(r.exc, FALSE, r.df, {})
  ELSE IF crashes.type = "dict"
  THEN IF "data" \in crashes.keys
       THEN LET r == DataFrame(crashes.data, NoNames)
            IN Ctx(r.exc, FALSE, r.df, {})
       ELSE IF "columns" \in crashes.keys \/ "rows" \in crashes.keys
       THEN IF "rows" \in crashes.keys /\ crashes.rows.t = "list"
            THEN LET listed == "columns" \in crashes.keys /\ crashes.columns.t = "list"
                     cs == crashes.columns.elems
                     ok == listed /\ \A i \in 1..Len(cs) : HasName(cs[i])
                     column_names ==
                       IF ok
                       THEN [given |-> TRUE,
                             names |-> [i \in 1..Len(cs) |-> Lookup(cs[i].pairs, "name")]]
                       ELSE NoNames
                     r == DataFrame(crashes.rows, column_names)
                 IN Ctx(r.exc, FALSE, r.df,
                        IF listed /\ ~ok THEN {MsgNoColumnNames} ELSE {})
            ELSE Ctx("none", TRUE, EmptyFrame, {MsgNoRows})
       ELSE Ctx("none", TRUE, EmptyFrame, {MsgBadFormat})
  ELSE Ctx("none", TRUE, EmptyFrame, {MsgBadType})

\* Lines 136-138: every label that is a key of column_mapping is renamed.
Rename(df) ==
  [df EXCEPT !.cols = [i \in 1..Len(df.cols) |->
     IF df.cols[i] \in DOMAIN column_mapping
     THEN column_mapping[df.cols[i]] ELSE df.cols[i]]]

missing_columns(df) ==
  {c \in {required_columns[i] : i \in 1..Len(required_columns)} : ~HasCol(df, c)}

\* One "if alias in df.columns and canonical not in df.columns" of lines 152-163.
InferOne(df, alias, canonical) ==
  IF HasCol(df, alias) /\ ~HasCol(df, canonical)
  THEN SetCol(df, canonical, Column(df, alias))
  ELSE df

\* Lines 146-163.
Infer(c) ==
  IF missing_columns(c.df) = {} THEN c
  ELSE LET d1 == InferOne(c.df, "latitude", "lat")
           d2 == InferOne(d1, "longitude", "lon")
           d3 == InferOne(d2, "number_of_cyclist_injured", "cyclists_injured")
           d4 == InferOne(d3, "number_of_cyclist_killed", "cyclists_killed")
       IN [c EXCEPT !.df = d4, !.out = @ \cup {MsgMissing}]

\* Lines 166-171.
CheckAgain(c) ==
  IF missing_columns(c.df) = {} THEN c ELSE [c EXCEPT !.out = @ \cup {MsgStillMissing}]

\* One iteration of lines 174-176.  Selecting a repeated label yields a
\* DataFrame, which pd.to_numeric rejects with a TypeError.
ConvertColumn(c, col) ==
  IF c.exc # "none" \/ ~HasCol(c.df, col) THEN c
  ELSE IF ColCount(c.df, col) > 1 THEN [c EXCEPT !.exc = "TypeError"]
  ELSE LET vals == [r \in 1..Len(c.df.rows) |-> to_numeric(Cell(c.df, c.df.rows[r], col))]
       IN IF \E r \in 1..Len(vals) : vals[r].k = "raise"   \* never, under errors='coerce'
          THEN [c EXCEPT !.exc = "ValueError"]
          ELSE [c EXCEPT !.df = SetCol(c.df, col, vals)]

ConvertNumeric(c) ==
  ConvertColumn(ConvertColumn(ConvertColumn(ConvertColumn(c,
    "lat"), "lon"), "cyclists_injured"), "cyclists_killed")

KeepRowNonZero(df, row) ==
  \/ Cell(df, row, "cyclists_injured").k = "num" /\ Cell(df, row, "cyclists_injured").n # 0
  \/ Cell(df, row, "cyclists_killed").k = "num" /\ Cell(df, row, "cyclists_killed").n # 0

\* Line 179.
KeepRow(df, row) ==
  Gt0(Cell(df, row, "cyclists_injured")) \/ Gt0(Cell(df, row, "cyclists_killed"))

FilterCyclists(c) ==
  IF c.exc # "none" THEN c
  ELSE IF ~HasCol(c.df, "cyclists_injured") \/ ~HasCol(c.df, "cyclists_killed")
  THEN [c EXCEPT !.exc = "KeyError"]
  ELSE LET Keep(row) == KeepRow(c.df, row)
       IN [c EXCEPT !.df.rows = SelectSeq(c.df.rows, Keep)]

DropNaDedup(c) ==
  IF c.exc # "none" THEN c
  ELSE IF ~HasCol(c.df, "lat") \/ ~HasCol(c.df, "lon")
  THEN [c EXCEPT !.exc = "KeyError"]
  ELSE LET Keep(row) == ~isna(Cell(c.df, row, "lat")) /\ ~isna(Cell(c.df, row, "lon"))
           kept == SelectSeq(c.df.rows, Keep)
           first == {r \in 1..Len(kept) : \A q \in 1..(r - 1) : kept[q] # kept[r]}
           Nth(k) == CHOOSE r \in first : Cardinality({q \in first : q < r}) = k - 1
       IN [c EXCEPT !.df.rows = [k \in 1..Cardinality(first) |-> kept[Nth(k)]]]

\* Line 182.
DropNa(c) ==
  IF c.exc # "none" THEN c
  ELSE IF ~HasCol(c.df, "lat") \/ ~HasCol(c.df, "lon")
  THEN [c EXCEPT !.exc = "KeyError"]
  ELSE LET Keep(row) == ~isna(Cell(c.df, row, "lat")) /\ ~isna(Cell(c.df, row, "lon"))
       IN [c EXCEPT !.df.rows = SelectSeq(c.df.rows, Keep)]

AddTotalInjured(c) ==
  IF c.exc # "none" THEN c
  ELSE [c EXCEPT !.df = SetCol(c.df, "total_cyclist_casualties",
          [r \in 1..Len(c.df.rows) |-> Cell(c.df, c.df.rows[r], "cyclists_injured")])]

AddTotalAndDistance(c) ==
  IF c.exc # "none" THEN c
  ELSE [c EXCEPT !.df =
          SetCol(SetCol(c.df, "total_cyclist_casualties",
                        [r \in 1..Len(c.df.rows) |->
                           AddCells(Cell(c.df, c.df.rows[r], "cyclists_injured"),
                                    Cell(c.df, c.df.rows[r], "cyclists_killed"))]),
                 "distance_to_nearest_station", [r \in 1..Len(c.df.rows) |-> NaN])]

\* Line 185.
AddTotal(c) ==
  IF c.exc # "none" THEN c
  ELSE [c EXCEPT !.df = SetCol(c.df, "total_cyclist_casualties",
          [r \in 1..Len(c.df.rows) |->
             AddCells(Cell(c.df, c.df.rows[r], "cyclists_injured"),
                      Cell(c.df, c.df.rows[r], "cyclists_killed"))])]

\* pd.to_datetime on one cell of a column that parses.
to_datetime(v) == IF v.k = "datestr" THEN Datetime(v.n) ELSE IF v.k = "datetime" THEN v ELSE NaT

\* A value pd.to_datetime raises on.
Unparseable(v) == v.k = "junk"

ParseDateDropping(c) ==
  IF c.exc # "none" \/ ~HasCol(c.df, "date") THEN c
  ELSE IF ColCount(c.df, "date") > 1 THEN [c EXCEPT !.out = @ \cup {MsgDateWarning}]
  ELSE LET Parses(row) == ~Unparseable(Cell(c.df, row, "date"))
           kept == [c.df EXCEPT !.rows = SelectSeq(c.df.rows, Parses)]
       IN [c EXCEPT !.df = SetCol(kept, "date",
                                  [r \in 1..Len(kept.rows) |->
                                     to_datetime(Cell(kept, kept.rows[r], "date"))]),
                    !.out = IF kept = c.df THEN @ ELSE @ \cup {MsgDateWarning}]

\* Lines 188-192.  pd.to_datetime raises on the first value it cannot parse,
\* and on the DataFrame that a repeated label selects; the bare except prints
\* a warning and the column stays as it was.
ParseDate(c) ==
  IF c.exc # "none" \/ ~HasCol(c.df, "date") THEN c
  ELSE IF \/ ColCount(c.df, "date") > 1
          \/ \E r \in 1..Len(c.df.rows) : Unparseable(Cell(c.df, c.df.rows[r], "date"))
  THEN [c EXCEPT !.out = @ \cup {MsgDateWarning}]
  ELSE [c EXCEPT !.df = SetCol(c.df, "date",
                               [r \in 1..Len(c.df.rows) |->
                                  to_datetime(Cell(c.df, c.df.rows[r], "date"))])]

\* Lines 194-195; a call that raises returns no frame.
Finish(c) ==
  IF c.exc # "none" THEN [c EXCEPT !.df = EmptyFrame]
  ELSE [c EXCEPT !.out = @ \cup {MsgCleaned}]

\* clean_crash_data(crashes): the exception that leaves the call ("none" when
\* it returns), the frame returned and the diagnostics printed.
clean_crash_data(crashes) ==
  LET b == BuildFrame(crashes)
  IN IF b.exc # "none" \/ b.returned THEN [b EXCEPT !.df = EmptyFrame]
     ELSE Finish(ParseDate(AddTotal(DropNa(FilterCyclists(ConvertNumeric(
            CheckAgain(Infer([b EXCEPT !.df = Rename(b.df)]))))))))

-----------------------------------------------------------------------------
(* haversine and analyze_proximity *)

\* The values of haversine (lines 17-25: radius 6371 km, result in metres) at
\* the coordinates of the model, as <<lon1, lat1, lon2, lat2>> in 1e-4 degree,
\* rounded to centimetres.
HaversineTable ==
  <<-740000, 400000, -740000, 400000>> :> 0 @@
  <<-740000, 400000, -740000, 400005>> :> 5560 @@
  <<-740000, 400000, -740000, 400020>> :> 22239 @@
  <<-740000, 400000, -740000, 400040>> :> 44478 @@
  <<-740000, 400000, -740000, 400100>> :> 111195 @@
  <<-740000, 400000, -740010, 400000>> :> 8518 @@
  <<-740000, 400000, -740010, 400005>> :> 10172 @@
  <<-740000, 400000, -740010, 400020>> :> 23814 @@
  <<-740000, 400000, -740010, 400040>> :> 45286 @@
  <<-740000, 400000, -740010, 400100>> :> 111521 @@
  <<-740000, 400000, 2860000, 400000>> :> 0 @@
  <<-740000, 400000, 0, 0>> :> 865210160 @@
  <<-740000, 400000, 0, 900000>> :> 555974633 @@
  <<-740000, 400005, -740000, 400000>> :> 5560 @@
  <<-740000, 400005, -740000, 400005>> :> 0 @@
  <<-740000, 400005, -740000, 400020>> :> 16679 @@
  <<-740000, 400005, -740000, 400040>> :> 38918 @@
  <<-740000, 400005, -740000, 400100>> :> 105635 @@
  <<-740000, 400005, -740010, 400000>> :> 10172 @@
  <<-740000, 400005, -740010, 400005>> :> 8518 @@
  <<-740000, 400005, -740010, 400020>> :> 18728 @@
  <<-740000, 400005, -740010, 400040>> :> 39839 @@
  <<-740000, 400005, -740010, 400100>> :> 105978 @@
  <<-740000, 400005, 2860000, 400000>> :> 5560 @@
  <<-740000, 400005, 0, 0>> :> 865211168 @@
  <<-740000, 400005, 0, 900000>> :> 555969073 @@
  <<-740000, 400020, -740000, 400000>> :> 22239 @@
  <<-740000, 400020, -740000, 400005>> :> 16679 @@
  <<-740000, 400020, -740000, 400020>> :> 0 @@
  <<-740000, 400020, -740000, 400040>> :> 22239 @@
  <<-740000, 400020, -740000, 400100>> :> 88956 @@
  <<-740000, 400020, -740010, 400000>> :> 23814 @@
  <<-740000, 400020, -740010, 400005>> :> 18728 @@
  <<-740000, 400020, -740010, 400020>> :> 8518 @@
  <<-740000, 400020, -740010, 400040>> :> 23814 @@
  <<-740000, 400020, -740010, 400100>> :> 89363 @@
  <<-740000, 400020, 2860000, 400000>> :> 22239 @@
  <<-740000, 400020, 0, 0>> :> 865214191 @@
  <<-740000, 400020, 0, 900000>> :> 555952394 @@
  <<-740000, 400040, -740000, 400000>> :> 44478 @@
  <<-740000, 400040, -740000, 400005>> :> 38918 @@
  <<-740000, 400040, -740000, 400020>> :> 22239 @@
  <<-740000, 400040, -740000, 400040>> :> 0 @@
  <<-740000, 400040, -740000, 400100>> :> 66717 @@
  <<-740000, 400040, -740010, 400000>> :> 45286 @@
  <<-740000, 400040, -740010, 400005>> :> 39839 @@
  <<-740000, 400040, -740010, 400020>> :> 23814 @@
  <<-740000, 400040, -740010, 400040>> :> 8518 @@
  <<-740000, 400040, -740010, 400100>> :> 67258 @@
  <<-740000, 400040, 2860000, 400000>> :> 44478 @@
  <<-740000, 400040, 0, 0>> :> 865218223 @@
  <<-740000, 400040, 0, 900000>> :> 555930155 @@
  <<-740000, 400100, -740000, 400000>> :> 111195 @@
  <<-740000, 400100, -740000, 400005>> :> 105635 @@
  <<-740000, 400100, -740000, 400020>> :> 88956 @@
  <<-740000, 400100, -740000, 400040>> :> 66717 @@
  <<-740000, 400100, -740000, 400100>> :> 0 @@
  <<-740000, 400100, -740010, 400000>> :> 111521 @@
  <<-740000, 400100, -740010, 400005>> :> 105978 @@
  <<-740000, 400100, -740010, 400020>> :> 89363 @@
  <<-740000, 400100, -740010, 400040>> :> 67258 @@
  <<-740000, 400100, -740010, 400100>> :> 8517 @@
  <<-740000, 400100, 2860000, 400000>> :> 111195 @@
  <<-740000, 400100, 0, 0>> :> 865230318 @@
  <<-740000, 400100, 0, 900000>> :> 555863438 @@
  <<-740010, 400000, -740000, 400000>> :> 8518 @@
  <<-740010, 400000, -740000, 400005>> :> 10172 @@
  <<-740010, 400000, -740000, 400020>> :> 23814 @@
  <<-740010, 400000, -740000, 400040>> :> 45286 @@
  <<-740010, 400000, -740000, 400100>> :> 111521 @@
  <<-740010, 400000, -740010, 400000>> :> 0 @@
  <<-740010, 400000, -740010, 400005>> :> 5560 @@
  <<-740010, 400000, -740010, 400020>> :> 22239 @@
  <<-740010, 400000, -740010, 400040>> :> 44478 @@
  <<-740010, 400000, -740010, 400100>> :> 111195 @@
  <<-740010, 400000, 2860000, 400000>> :> 8518 @@
  <<-740010, 400000, 0, 0>> :> 865218537 @@
  <<-740010, 400000, 0, 900000>> :> 555974633 @@
  <<-740010, 400005, -740000, 400000>> :> 10172 @@
  <<-740010, 400005, -740000, 400005>> :> 8518 @@
  <<-740010, 400005, -740000, 400020>> :> 18728 @@
  <<-740010, 400005, -740000, 400040>> :> 39839 @@
  <<-740010, 400005, -740000, 400100>> :> 105978 @@
  <<-740010, 400005, -740010, 400000>> :> 5560 @@
  <<-740010, 400005, -740010, 400005>> :> 0 @@
  <<-740010, 400005, -740010, 400020>> :> 16679 @@
  <<-740010, 400005, -740010, 400040>> :> 38918 @@
  <<-740010, 400005, -740010, 400100>> :> 105635 @@
  <<-740010, 400005, 2860000, 400000>> :> 10172 @@
  <<-740010, 400005, 0, 0>> :> 865219545 @@
  <<-740010, 400005, 0, 900000>> :> 555969073 @@
  <<-740010, 400020, -740000, 400000>> :> 23814 @@
  <<-740010, 400020, -740000, 400005>> :> 18728 @@
  <<-740010, 400020, -740000, 400020>> :> 8518 @@
  <<-740010, 400020, -740000, 400040>> :> 23814 @@
  <<-740010, 400020, -740000, 400100>> :> 89363 @@
  <<-740010, 400020, -740010, 400000>> :> 22239 @@
  <<-740010, 400020, -740010, 400005>> :> 16679 @@
  <<-740010, 400020, -740010, 400020>> :> 0 @@
  <<-740010, 400020, -740010, 400040>> :> 22239 @@
  <<-740010, 400020, -740010, 400100>> :> 88956 @@
  <<-740010, 400020, 2860000, 400000>> :> 23814 @@
  <<-740010, 400020, 0, 0>> :> 865222568 @@
  <<-740010, 400020, 0, 900000>> :> 555952394 @@
  <<-740010, 400040, -740000, 400000>> :> 45286 @@
  <<-740010, 400040, -740000, 400005>> :> 39839 @@
  <<-740010, 400040, -740000, 400020>> :> 23814 @@
  <<-740010, 400040, -740000, 400040>> :> 8518 @@
  <<-740010, 400040, -740000, 400100>> :> 67258 @@
  <<-740010, 400040, -740010, 400000>> :> 44478 @@
  <<-740010, 400040, -740010, 400005>> :> 38918 @@
  <<-740010, 400040, -740010, 400020>> :> 22239 @@
  <<-740010, 400040, -740010, 400040>> :> 0 @@
  <<-740010, 400040, -740010, 400100>> :> 66717 @@
  <<-740010, 400040, 2860000, 400000>> :> 45286 @@
  <<-740010, 400040, 0, 0>> :> 865226599 @@
  <<-740010, 400040, 0, 900000>> :> 555930155 @@
  <<-740010, 400100, -740000, 400000>> :> 111521 @@
  <<-740010, 400100, -740000, 400005>> :> 105978 @@
  <<-740010, 400100, -740000, 400020>> :> 89363 @@
  <<-740010, 400100, -740000, 400040>> :> 67258 @@
  <<-740010, 400100, -740000, 400100>> :> 8517 @@
  <<-740010, 400100, -740010, 400000>> :> 111195 @@
  <<-740010, 400100, -740010, 400005>> :> 105635 @@
  <<-740010, 400100, -740010, 400020>> :> 88956 @@
  <<-740010, 400100, -740010, 400040>> :> 66717 @@
  <<-740010, 400100, -740010, 400100>> :> 0 @@
  <<-740010, 400100, 2860000, 400000>> :> 111521 @@
  <<-740010, 400100, 0, 0>> :> 865238693 @@
  <<-740010, 400100, 0, 900000>> :> 555863438 @@
  <<2860000, 400000, -740000, 400000>> :> 0 @@
  <<2860000, 400000, -740000, 400005>> :> 5560 @@
  <<2860000, 400000, -740000, 400020>> :> 22239 @@
  <<2860000, 400000, -740000, 400040>> :> 44478 @@
  <<2860000, 400000, -740000, 400100>> :> 111195 @@
  <<2860000, 400000, -740010, 400000>> :> 8518 @@
  <<2860000, 400000, -740010, 400005>> :> 10172 @@
  <<2860000, 400000, -740010, 400020>> :> 23814 @@
  <<2860000, 400000, -740010, 400040>> :> 45286 @@
  <<2860000, 400000, -740010, 400100>> :> 111521 @@
  <<2860000, 400000, 2860000, 400000>> :> 0 @@
  <<2860000, 400000, 0, 0>> :> 865210160 @@
  <<2860000, 400000, 0, 900000>> :> 555974633 @@
  <<0, 0, -740000, 400000>> :> 865210160 @@
  <<0, 0, -740000, 400005>> :> 865211168 @@
  <<0, 0, -740000, 400020>> :> 865214191 @@
  <<0, 0, -740000, 400040>> :> 865218223 @@
  <<0, 0, -740000, 400100>> :> 865230318 @@
  <<0, 0, -740010, 400000>> :> 865218537 @@
  <<0, 0, -740010, 400005>> :> 865219545 @@
  <<0, 0, -740010, 400020>> :> 865222568 @@
  <<0, 0, -740010, 400040>> :> 865226599 @@
  <<0, 0, -740010, 400100>> :> 865238693 @@
  <<0, 0, 2860000, 400000>> :> 865210160 @@
  <<0, 0, 0, 0>> :> 0 @@
  <<0, 0, 0, 900000>> :> 1000754340 @@
  <<0, 900000, -740000, 400000>> :> 555974633 @@
  <<0, 900000, -740000, 400005>> :> 555969073 @@
  <<0, 900000, -740000, 400020>> :> 555952394 @@
  <<0, 900000, -740000, 400040>> :> 555930155 @@
  <<0, 900000, -740000, 400100>> :> 555863438 @@
  <<0, 900000, -740010, 400000>> :> 555974633 @@
  <<0, 900000, -740010, 400005>> :> 555969073 @@
  <<0, 900000, -740010, 400020>> :> 555952394 @@
  <<0, 900000, -740010, 400040>> :> 555930155 @@
  <<0, 900000, -740010, 400100>> :> 555863438 @@
  <<0, 900000, 2860000, 400000>> :> 555974633 @@
  <<0, 900000, 0, 0>> :> 1000754340 @@
  <<0, 900000, 0, 900000>> :> 0

\* The same distances on a sphere of the equatorial radius, 6378 km.
HaversineEquatorial(lon1, lat1, lon2, lat2) ==
  HaversineTable[<<lon1, lat1, lon2, lat2>>] + HaversineTable[<<lon1, lat1, lon2, lat2>>] \div 910

haversine(lon1, lat1, lon2, lat2) == HaversineTable[<<lon1, lat1, lon2, lat2>>]

\* float('inf'), above every distance on the sphere.
Inf == 2147483647

MsgNoValid == "No valid station coordinates for proximity analysis."
MsgProximity == "Crashes within 100m, 250m, 500m of a station"

\* isinstance(x, (int, float))
IsNumber(v) == v.k = "num"

\* Lines 245-247.
valid_station(s) ==
  /\ s.lat.k # "absent" /\ s.lon.k # "absent"
  /\ IsNumber(s.lat) /\ IsNumber(s.lon)

valid_stations(sts) == SelectSeq(sts, valid_station)

NeverNoValid(vs) == FALSE

\* Line 250: "if not valid_stations".
NoValidStations(vs) == vs = <<>>

CloserFirstOnly(distance, closest) == closest = Inf

NeverCloser(distance, closest) == FALSE

\* Line 260.
Closer(distance, closest) == distance < closest

\* Lines 257-261: the scan of one crash over the valid stations.
RECURSIVE closest_distance(_, _, _, _)
closest_distance(lon, lat, vs, closest) ==
  IF vs = <<>> THEN closest
  ELSE LET distance == haversine(lon, lat, Head(vs).lon.n, Head(vs).lat.n)
       IN closest_distance(lon, lat, Tail(vs),
                           IF Closer(distance, closest) THEN distance ELSE closest)

DistanceOf(df, r) == Cell(df, df.rows[r], "distance_to_nearest_station").n

WithinBand(df, meters) ==
  Cardinality({r \in 1..Len(df.rows) :
     /\ DistanceOf(df, r) <= meters * 100
     /\ DistanceOf(df, r) > (CASE meters = 100 -> -1 [] meters = 250 -> 100 [] OTHER -> 250) * 100})

\* Lines 274-276: (distance <= meters).sum()
Within(df, meters) ==
  Cardinality({r \in 1..Len(df.rows) : DistanceOf(df, r) <= meters * 100})

\* analyze_proximity(crashes_df, stations) on the frame df: the exception, the
\* value returned ("frame": the frame passed, "None"), the frame after the call,
\* what was printed, the calls of haversine and the band counts.
analyze_proximity(df, sts) ==
  LET vs == valid_stations(sts)
  IN IF NoValidStations(vs)
     THEN [exc |-> "none", ret |-> "None", df |-> df, out |-> {MsgNoValid},
           calls |-> 0, stats |-> NoStats]
     ELSE LET distances ==
                [r \in 1..Len(df.rows) |->
                   Num(closest_distance(Cell(df, df.rows[r], "lon").n,
                                        Cell(df, df.rows[r], "lat").n, vs, Inf))]
              df2 == SetCol(df, "distance_to_nearest_station", distances)
          IN [exc |-> "none", ret |-> "frame", df |-> df2, out |-> {MsgProximity},
              calls |-> Len(df.rows) * Len(vs),
              stats |-> [within_100m |-> Within(df2, 100),
                         within_250m |-> Within(df2, 250),
                         within_500m |-> Within(df2, 500),
                         total |-> Len(df2.rows)]]

-----------------------------------------------------------------------------
(* The crash documents given to clean_crash_data *)

MaxRows == 2

SeqsUpTo(S, n) == UNION {[1..m -> S] : m \in 0..n}

Canonical == <<"lat", "lon", "cyclists_injured", "cyclists_killed">>
Aliases == <<"latitude", "longitude", "number_of_cyclist_injured",
             "number_of_cyclist_killed">>

\* The key sequences of the records of a document.
Schemas ==
  { Canonical,
    Aliases,
    <<"latitude", "lon", "number_of_cyclist_injured", "cyclists_killed">>,
    <<"lat", "latitude", "lon", "cyclists_injured", "cyclists_killed">>,
    <<"lat", "lon", "number_of_cyclist_injured", "cyclists_injured", "cyclists_killed">>,
    <<"lat", "lon", "cyclists_injured">>,
    <<"lon", "cyclists_injured", "cyclists_killed">>,
    <<"date", "lat", "lon", "cyclists_injured", "cyclists_killed">>,
    <<"crash_date", "lat", "lon", "cyclists_injured", "cyclists_killed">>,
    <<"crash_date", "date", "lat", "lon", "cyclists_injured", "cyclists_killed">> }

\* A row case gives the values of one record: <<lat, lon, injured, killed>>, and
\* the date for a record that has one.
CoordCases ==
  { <<Num(400000), Num(-740000)>>, <<NumStr(400020), NumStr(-740010)>>,
    <<Junk, Num(-740000)>>, <<Num(400040), Null>> }

CasualtyCases ==
  { <<Num(1), Num(0)>>, <<Num(0), Num(0)>>, <<Num(0), Num(2)>>,
    <<Num(1), Num(-1)>>, <<Num(1), Null>>, <<NumStr(2), Junk>>, <<Num(-1), Num(0)>> }

RowCases == {c \o k : c \in CoordCases, k \in CasualtyCases}

FewRowCases ==
  { <<Num(400000), Num(-740000), Num(1), Num(0)>>,
    <<Num(400020), Junk, Num(2), Num(1)>>,
    <<NumStr(400040), Num(-740010), Junk, NumStr(1)>> }

\* Records with a date.
DateRowCases ==
  { <<Num(400000), Num(-740000), Num(1), Num(0), DateStr(1)>>,
    <<Num(400020), Num(-740010), Num(0), Num(2), DateStr(7)>>,
    <<Num(400040), Num(-740010), Num(1), Num(1), Junk>>,
    <<Num(400000), Num(-740000), Num(2), Num(0), Null>>,
    <<Num(400000), Num(-740000), Num(0), Num(0), Junk>> }

ConceptOf(key) ==
  CASE key \in {"lat", "latitude"} -> 1
    [] key \in {"lon", "longitude"} -> 2
    [] key \in {"cyclists_injured", "number_of_cyclist_injured"} -> 3
    [] key \in {"date", "crash_date"} -> 5
    [] OTHER -> 4

\* The value a record holds under an alias whose canonical name it holds too.
OtherValue(key) ==
  IF ConceptOf(key) <= 2 THEN Num(400100)
  ELSE IF ConceptOf(key) = 5 THEN DateStr(3) ELSE Num(3)

FieldValue(schema, key, case) ==
  IF key \in DOMAIN column_mapping /\ InSeq(column_mapping[key], schema)
  THEN OtherValue(key)
  ELSE case[ConceptOf(key)]

RecordOf(schema, case) ==
  DictItem([i \in 1..Len(schema) |-> <<schema[i], FieldValue(schema, schema[i], case)>>])

RowOf(schema, case) ==
  ListItem([i \in 1..Len(schema) |-> FieldValue(schema, schema[i], case)])

Records(schema, cases) == [i \in 1..Len(cases) |-> RecordOf(schema, cases[i])]
RowLists(schema, cases) == [i \in 1..Len(cases) |-> RowOf(schema, cases[i])]

ColumnDescriptors(schema) ==
  JList([i \in 1..Len(schema) |-> DictItem(<< <<"name", schema[i]>> >>)])

CasesFor(schema) ==
  IF schema = Canonical THEN RowCases
  ELSE IF InSeq("date", schema) \/ InSeq("crash_date", schema) THEN DateRowCases
  ELSE FewRowCases

\* crash_data is a list of records, a {data: records} envelope or a
\* {columns, rows} table, of at most MaxRows records.
IsListDoc(doc) ==
  \E sc \in Schemas : \E cs \in SeqsUpTo(CasesFor(sc), MaxRows) :
    doc = ListDoc(Records(sc, cs))

IsDataDoc(doc) ==
  \E cs \in SeqsUpTo(FewRowCases, MaxRows) :
    doc = DictDoc({"data"}, JList(Records(Aliases, cs)), JNull, JNull)

IsTableDoc(doc) ==
  \E sc \in {Canonical, Aliases} : \E cs \in SeqsUpTo(FewRowCases, MaxRows) :
    doc = DictDoc({"columns", "rows"}, JNull, ColumnDescriptors(sc), JList(RowLists(sc, cs)))

\* Key sequences of the records of a list whose records differ in their fields.
MixedSchemas ==
  { Canonical,
    <<"lon", "lat", "cyclists_killed", "cyclists_injured">>,
    <<"lat", "lon", "cyclists_injured">>,
    Aliases }

\* A list of two records of different key sequences.
IsMixedDoc(doc) ==
  \E s1, s2 \in MixedSchemas : \E c1, c2 \in FewRowCases :
    /\ s1 # s2
    /\ doc = ListDoc(<<RecordOf(s1, c1), RecordOf(s2, c2)>>)

OneRow == <<RowOf(Canonical, <<Num(400000), Num(-740000), Num(1), Num(0)>>)>>

\* Documents of no recognized shape.
OddDocs ==
  { StrDoc, NoneDoc,
    ListDoc(<<ScalarItem>>),
    DictDoc({"meta"}, JNull, JNull, JNull),
    DictDoc({"data"}, JScalar, JNull, JNull),
    DictDoc({"data"}, JNull, JNull, JNull),
    DictDoc({"data"}, JDictOfScalars, JNull, JNull),
    DictDoc({"data"}, JDictOfLists(<<ScalarItem>>), JNull, JNull),
    DictDoc({"columns"}, JNull, ColumnDescriptors(Canonical), JNull),
    DictDoc({"rows"}, JNull, JNull, JList(OneRow)),
    DictDoc({"columns", "rows"}, JNull, ColumnDescriptors(Canonical), JScalar),
    DictDoc({"columns", "rows"}, JNull, JScalar, JList(OneRow)),
    DictDoc({"columns", "rows"}, JNull,
            JList(<<DictItem(<< <<"fieldName", "lat">> >>)>>), JList(OneRow)),
    DictDoc({"columns", "rows"}, JNull,
            ColumnDescriptors(<<"lat", "lon", "cyclists_injured">>), JList(OneRow)) }

NoExtra == [station |-> [station_id |-> "", lat |-> Absent, lon |-> Absent],
            frame |-> EmptyFrame, stats |-> NoStats]
NoFeed == [has |-> FALSE, stations |-> <<>>]
NoFeeds == [info |-> NoFeed, status |-> NoFeed]
NoCombined == [built |-> FALSE, stations |-> <<>>]
NoLoad == [api_url |-> "None", file_path |-> "None", fetch |-> "none", file |-> "none",
           requests |-> 0, reported |-> 0]
NoHav == [p |-> <<0, 0>>, q |-> <<0, 0>>, pq |-> 0, qp |-> 0]

-----------------------------------------------------------------------------
(* clean_crash_data applied to one document *)

InitClean ==
  /\ pc = "clean"
  /\ \/ IsListDoc(crash_data)
     \/ IsDataDoc(crash_data)
     \/ IsTableDoc(crash_data)
     \/ IsMixedDoc(crash_data)
     \/ crash_data \in OddDocs
  /\ frame = EmptyFrame
  /\ crashes_df = "unset"
  /\ stations = <<>>
  /\ exc = "none"
  /\ out = {}
  /\ hav_calls = 0
  /\ stats = NoStats
  /\ extra = NoExtra
  /\ feeds = NoFeeds
  /\ combined = NoCombined
  /\ load = NoLoad
  /\ hav = NoHav

CleanCall ==
  /\ pc = "clean"
  /\ LET r == clean_crash_data(crash_data)
     IN /\ frame' = r.df
        /\ exc' = r.exc
        /\ out' = r.out
  /\ pc' = "cleaned"
  /\ UNCHANGED <<crash_data, crashes_df, stations, hav_calls, stats, extra, feeds, combined, load, hav>>

NextClean == CleanCall

SpecClean == InitClean /\ [][NextClean]_vars

-----------------------------------------------------------------------------
(* Claims about clean_crash_data, checked under SpecClean *)

Cleaned == pc = "cleaned"

\* C1: every record of the table clean_crash_data returns has
\* cyclists_injured + cyclists_killed > 0, and so total_cyclist_casualties > 0,
\* also when one of the two counts is missing, unparseable or negative.
C1_CasualtiesPositive ==
  (Cleaned /\ exc = "none") =>
    \A r \in 1..Len(frame.rows) :
      /\ Gt0(AddCells(Cell(frame, frame.rows[r], "cyclists_injured"),
                      Cell(frame, frame.rows[r], "cyclists_killed")))
      /\ Gt0(Cell(frame, frame.rows[r], "total_cyclist_casualties"))

\* The canonical names that the document holds together with one of their aliases.
BothPresent(df) ==
  {column_mapping[a] : a \in {x \in DOMAIN column_mapping :
      x # column_mapping[x] /\ HasCol(df, x) /\ HasCol(df, column_mapping[x])}}

\* C5: when a record set holds both an alias and its canonical field,
\* clean_crash_data returns a table whose canonical column still carries the
\* original canonical values (the alias is not applied).
C5_CanonicalKept ==
  LET b == BuildFrame(crash_data)
  IN (Cleaned /\ b.exc = "none" /\ BothPresent(b.df) # {}) =>
       /\ exc = "none"
       /\ \A c \in BothPresent(b.df) :
            /\ ColCount(frame, c) = 1
            /\ \A r \in 1..Len(frame.rows) :
                 \E q \in 1..Len(b.df.rows) :
                   Cell(frame, frame.rows[r], c) = to_numeric(Cell(b.df, b.df.rows[q], c))

Tabular(jv) == jv.t = "list" /\ \A i \in 1..Len(jv.elems) : jv.elems[i].t = "dict"

WellPaired(doc) ==
  /\ {"columns", "rows"} \subseteq doc.keys
  /\ doc.rows.t = "list" /\ doc.columns.t = "list"
  /\ \A i \in 1..Len(doc.columns.elems) : HasName(doc.columns.elems[i])
  /\ \A i \in 1..Len(doc.rows.elems) :
       /\ doc.rows.elems[i].t = "list"
       /\ Len(doc.rows.elems[i].vals) = Len(doc.columns.elems)

ShapeRecognized(doc) ==
  \/ doc.type = "list" /\ Tabular(JList(doc.items))
  \/ doc.type = "dict" /\ "data" \in doc.keys /\ Tabular(doc.data)
  \/ doc.type = "dict" /\ "data" \notin doc.keys /\ WellPaired(doc)

RecordsOf(doc) ==
  IF doc.type = "list" THEN doc.items
  ELSE IF "data" \in doc.keys THEN doc.data.elems ELSE doc.rows.elems

FieldNames(doc) ==
  IF doc.type = "dict" /\ "data" \notin doc.keys
  THEN {Lookup(doc.columns.elems[i].pairs, "name") : i \in 1..Len(doc.columns.elems)}
  ELSE UNION {{RecordsOf(doc)[i].pairs[j][1] : j \in 1..Len(RecordsOf(doc)[i].pairs)} :
                i \in 1..Len(RecordsOf(doc))}

LacksRequired(doc) ==
  /\ RecordsOf(doc) # <<>>
  /\ \E i \in 1..Len(required_columns) :
       /\ required_columns[i] \notin FieldNames(doc)
       /\ ~\E a \in FieldNames(doc) \cap DOMAIN column_mapping :
             column_mapping[a] = required_columns[i]

Unrecognized(doc) == ~ShapeRecognized(doc) \/ LacksRequired(doc)

ErrorMessages == {MsgNoRows, MsgBadFormat, MsgBadType, MsgStillMissing}

\* C9: for a document of no recognized shape (only columns, a malformed
\* rows/columns pairing, a non-tabular data value, required fields lacking),
\* clean_crash_data returns an empty table, reports a diagnostic and does not raise.
C9_UnrecognizedYieldsEmpty ==
  (Cleaned /\ Unrecognized(crash_data)) =>
    /\ exc = "none"
    /\ frame.rows = <<>>
    /\ out \cap ErrorMessages # {}

Scrub(v) == IF v.k = "junk" THEN Null ELSE v

ScrubItem(it) ==
  [it EXCEPT !.pairs = [i \in 1..Len(it.pairs) |->
                          IF ConceptOf(it.pairs[i][1]) = 5 THEN it.pairs[i]
                          ELSE <<it.pairs[i][1], Scrub(it.pairs[i][2])>>],
             !.vals = [i \in 1..Len(it.vals) |-> Scrub(it.vals[i])]]

ScrubItems(items) == [i \in 1..Len(items) |-> ScrubItem(items[i])]

\* The document with every unparseable value replaced by a missing one.
ScrubDoc(doc) ==
  [doc EXCEPT !.items = ScrubItems(doc.items),
              !.data.elems = ScrubItems(doc.data.elems),
              !.rows.elems = ScrubItems(doc.rows.elems)]

HasJunk(doc) == ScrubDoc(doc) # doc

\* C10: a value of lat, lon, cyclists_injured or cyclists_killed that cannot be
\* parsed is treated as missing for that record only: the call ends as it does,
\* and returns the table it returns, when those values are absent.
C10_UnparseableIsMissing ==
  Cleaned =>
    LET r == clean_crash_data(ScrubDoc(crash_data))
    IN exc = r.exc /\ frame = r.df

\* C10 witness: a document holding an unparseable value was cleaned without an
\* exception, one record was dropped and another kept.
C10_Witness ==
  /\ Cleaned /\ HasJunk(crash_data) /\ exc = "none"
  /\ Len(frame.rows) >= 1
  /\ Len(frame.rows) < Len(RecordsOf(crash_data))

\* The frame the two filters of lines 179 and 182 act on.
BeforeFilters(crashes) ==
  LET b == BuildFrame(crashes)
  IN ConvertNumeric(CheckAgain(Infer([b EXCEPT !.df = Rename(b.df)])))

\* What clean_crash_data does with the filtered frame.
AfterFilters(c) == Finish(ParseDate(AddTotal(c)))

Filtered(crashes) == Cleaned /\ exc = "none" /\ ~BuildFrame(crashes).returned

CoordsPresent(df, row) == ~isna(Cell(df, row, "lat")) /\ ~isna(Cell(df, row, "lon"))

\* C11 (as stated): the records retained are those where at least one of the
\* two counts is non-zero and non-missing and both lat and lon are non-missing.
C11_NonZeroRetained ==
  Filtered(crash_data) =>
    LET pre == BeforeFilters(crash_data)
        Retained(row) == KeepRowNonZero(pre.df, row) /\ CoordsPresent(pre.df, row)
    IN frame = AfterFilters([pre EXCEPT !.df.rows = SelectSeq(pre.df.rows, Retained)]).df

\* C11 (amended): the coordinate filter followed by the casualty filter retains
\* exactly the records the casualty filter followed by the coordinate filter
\* retains, namely those where at least one of the two counts is greater than
\* zero and both lat and lon are non-missing.
C11_FilterOrder ==
  Filtered(crash_data) =>
    LET pre == BeforeFilters(crash_data)
        Retained(row) ==
          /\ Gt0(Cell(pre.df, row, "cyclists_injured")) \/ Gt0(Cell(pre.df, row, "cyclists_killed"))
          /\ CoordsPresent(pre.df, row)
    IN /\ frame = AfterFilters(FilterCyclists(DropNa(pre))).df
       /\ frame = AfterFilters([pre EXCEPT !.df.rows = SelectSeq(pre.df.rows, Retained)]).df

\* C11 witness: one record fails the casualty filter alone and another the
\* coordinate filter alone.
C11_Witness ==
  /\ Filtered(crash_data)
  /\ LET pre == BeforeFilters(crash_data)
     IN \E i, j \in 1..Len(pre.df.rows) :
          /\ ~KeepRow(pre.df, pre.df.rows[i]) /\ CoordsPresent(pre.df, pre.df.rows[i])
          /\ KeepRow(pre.df, pre.df.rows[j]) /\ ~CoordsPresent(pre.df, pre.df.rows[j])


\* Lines 83-138: the normalized records, as a frame.
Normalize(crashes) ==
  LET b == BuildFrame(crashes)
  IN [b EXCEPT !.df = Rename(b.df)]

\* The rows of a frame as a list of records.
AsRecords(df) ==
  ListDoc([r \in 1..Len(df.rows) |->
             DictItem([j \in 1..Len(df.cols) |-> <<df.cols[j], df.rows[r][j]>>])])

\* A list of records that all have the same canonical field names in the same order.
CanonicalList(doc) ==
  /\ doc.type = "list" /\ doc.items # <<>>
  /\ \A i \in 1..Len(doc.items) :
       /\ doc.items[i].t = "dict"
       /\ PairKeys(doc.items[i].pairs) = PairKeys(doc.items[1].pairs)
       /\ \A j \in 1..Len(doc.items[i].pairs) :
            InSeq(doc.items[i].pairs[j][1], required_columns)

DistinctLabels(df) == \A i, j \in 1..Len(df.cols) : df.cols[i] = df.cols[j] => i = j

DropCols(df, c) ==
  LET keep == {j \in 1..Len(df.cols) : df.cols[j] # c}
      Nth(k) == CHOOSE j \in keep : Cardinality({i \in keep : i < j}) = k - 1
  IN [cols |-> [k \in 1..Cardinality(keep) |-> df.cols[Nth(k)]],
      rows |-> [r \in 1..Len(df.rows) |->
                  [k \in 1..Cardinality(keep) |-> df.rows[r][Nth(k)]]]]

\* The document whose records have no date field.
WithoutDate(doc) ==
  LET NoDate(pair) == ConceptOf(pair[1]) # 5
  IN [doc EXCEPT !.items =
        [i \in 1..Len(doc.items) |->
           [doc.items[i] EXCEPT !.pairs = SelectSeq(doc.items[i].pairs, NoDate)]]]

\* The frame whose date column line 190 parses.
BeforeDate(crashes) == AddTotal(DropNa(FilterCyclists(BeforeFilters(crashes))))

\* The date column handed to pd.to_datetime holds a value that is no date, or
\* is in fact two columns.
DateParseFailed ==
  /\ Filtered(crash_data)
  /\ LET d == BeforeDate(crash_data).df
     IN /\ HasCol(d, "date")
        /\ \/ ColCount(d, "date") > 1
           \/ \E r \in 1..Len(d.rows) : Unparseable(Cell(d, d.rows[r], "date"))

\* C19: when the dates cannot be parsed the failure is reported and no record
\* is dropped for it: the records returned are those returned for the same
\* document without its date field.
C19_DateFailureKeepsRecords ==
  DateParseFailed =>
    /\ MsgDateWarning \in out
    /\ DropCols(frame, "date") = clean_crash_data(WithoutDate(crash_data)).df

\* C19 witness: two records were returned, one with a date that parses and one
\* with a date that does not.
C19_Witness ==
  /\ DateParseFailed /\ ColCount(frame, "date") = 1
  /\ \E r, q \in 1..Len(frame.rows) :
       /\ Cell(frame, frame.rows[r], "date").k = "junk"
       /\ Cell(frame, frame.rows[q], "date").k = "datestr"


\* The value the document gives record i in column j of the frame built from it.
InputCell(doc, i, j) ==
  LET recs == RecordsOf(doc)
  IN IF recs[i].t = "dict"
     THEN Lookup(recs[i].pairs, KeysInOrder(recs, <<>>)[j])
     ELSE recs[i].vals[j]

\* C20: normalization and cleaning keep the input order and never deduplicate:
\* the frame the filters act on holds the input records in their order, and the
\* table returned holds the records that pass, each as often and in the order
\* it occurs in the input.
C20_OrderKept ==
  Filtered(crash_data) =>
    LET pre == BeforeFilters(crash_data).df
        passing == {i \in 1..Len(pre.rows) :
                      KeepRow(pre, pre.rows[i]) /\ CoordsPresent(pre, pre.rows[i])}
        Nth(k) == CHOOSE i \in passing : Cardinality({q \in passing : q < i}) = k - 1
    IN /\ Len(pre.rows) = Len(RecordsOf(crash_data))
       /\ \A i \in 1..Len(pre.rows) : \A j \in 1..Len(pre.cols) :
            pre.rows[i][j] =
              IF InSeq(pre.cols[j], required_columns)
              THEN to_numeric(InputCell(crash_data, i, j))
              ELSE InputCell(crash_data, i, j)
       /\ Len(frame.rows) = Cardinality(passing)
       /\ \A k \in 1..Len(frame.rows) : \A j \in 1..Len(pre.cols) :
            pre.cols[j] # "date" => frame.rows[k][j] = pre.rows[Nth(k)][j]

\* C20 witness: two identical records passed the filters and both were returned.
C20_Witness ==
  /\ Filtered(crash_data) /\ crash_data.type = "list"
  /\ Len(crash_data.items) = 2 /\ crash_data.items[1] = crash_data.items[2]
  /\ Len(frame.rows) = 2


-----------------------------------------------------------------------------
(* clean_crash_data, statement by statement                                   *)

\* The rows of the documents cleaned step by step.
StepCases(schema) == IF schema = Canonical THEN FewRowCases ELSE CasesFor(schema)

IsStepDoc(doc) ==
  \E sc \in Schemas : \E cs \in SeqsUpTo(StepCases(sc), MaxRows) :
    doc = ListDoc(Records(sc, cs))

\* A {rows} or {columns, rows} table whose columns give no names.
IsUnnamedTableDoc(doc) ==
  \E cs \in SeqsUpTo(FewRowCases, MaxRows) :
    \/ doc = DictDoc({"rows"}, JNull, JNull, JList(RowLists(Canonical, cs)))
    \/ doc = DictDoc({"columns", "rows"}, JNull,
                     JList(<<DictItem(<< <<"fieldName", "lat">> >>)>>),
                     JList(RowLists(Canonical, cs)))

InitCleanSteps ==
  /\ pc = "build"
  /\ \/ IsStepDoc(crash_data)
     \/ IsTableDoc(crash_data)
     \/ IsUnnamedTableDoc(crash_data)
     \/ crash_data \in OddDocs
  /\ frame = EmptyFrame
  /\ crashes_df = "unset"
  /\ stations = <<>>
  /\ exc = "none"
  /\ out = {}
  /\ hav_calls = 0
  /\ stats = NoStats
  /\ extra = NoExtra
  /\ feeds = NoFeeds
  /\ combined = NoCombined
  /\ load = NoLoad
  /\ hav = NoHav

\* The local state of the call as a context, and a context as the next state.
Here == Ctx(exc, FALSE, frame, out)

Goto(c, next) ==
  /\ frame' = c.df
  /\ exc' = c.exc
  /\ out' = c.out
  /\ pc' = IF c.exc # "none" THEN "raised" ELSE IF c.returned THEN "returned" ELSE next
  /\ UNCHANGED <<crash_data, crashes_df, stations, hav_calls, stats, extra, feeds, combined,
                 load, hav>>

\* Lines 83-118.
StepBuild == pc = "build" /\ Goto(BuildFrame(crash_data), "rename")

\* Lines 136-138.
StepRename == pc = "rename" /\ Goto([Here EXCEPT !.df = Rename(frame)], "infer")

\* Lines 146-171.
StepInfer == pc = "infer" /\ Goto(CheckAgain(Infer(Here)), "convert")

\* Lines 174-176.
StepConvert == pc = "convert" /\ Goto(ConvertNumeric(Here), "filter")

\* Line 179.
StepFilter == pc = "filter" /\ Goto(FilterCyclists(Here), "dropna")

\* Line 182.
StepDropNa == pc = "dropna" /\ Goto(DropNa(Here), "total")

\* Line 185.
StepTotal == pc = "total" /\ Goto(AddTotal(Here), "date")

\* Lines 188-192.
StepDate == pc = "date" /\ Goto(ParseDate(Here), "finish")

\* Lines 194-195.
StepReturn == pc = "finish" /\ Goto([Finish(Here) EXCEPT !.returned = TRUE], "returned")

NextCleanSteps ==
  \/ StepBuild
  \/ StepRename
  \/ StepInfer
  \/ StepConvert
  \/ StepFilter
  \/ StepDropNa
  \/ StepTotal
  \/ StepDate
  \/ StepReturn

SpecCleanSteps == InitCleanSteps /\ [][NextCleanSteps]_vars

HasTotal(df) == HasCol(df, "total_cyclist_casualties")

\* C18 (as stated): total_cyclist_casualties is computed after the numeric
\* coercion and before the casualty filter: the frame the filter is applied to
\* has the column.
C18_TotalBeforeFilter ==
  (pc = "filter") => HasTotal(frame)

\* C18 (amended): total_cyclist_casualties is computed after the numeric
\* coercion and after both filters, for the records they retain, as
\* cyclists_injured + cyclists_killed.
C18_TotalAfterFilters ==
  /\ pc \in {"build", "rename", "infer", "convert", "filter", "dropna", "total"} =>
       ~HasTotal(frame)
  /\ (pc \in {"date", "finish"} \/ (pc = "returned" /\ MsgCleaned \in out)) =>
       /\ HasTotal(frame)
       /\ \A r \in 1..Len(frame.rows) :
            Cell(frame, frame.rows[r], "total_cyclist_casualties") =
              AddCells(to_numeric(Cell(frame, frame.rows[r], "cyclists_injured")),
                       to_numeric(Cell(frame, frame.rows[r], "cyclists_killed")))

\* C18 witness: the total was computed for a retained record with both counts
\* positive, after another record was filtered out.
C18_Witness ==
  /\ pc = "date" /\ HasTotal(frame)
  /\ Len(frame.rows) < Len(RecordsOf(crash_data))
  /\ \E r \in 1..Len(frame.rows) :
       /\ Gt0(Cell(frame, frame.rows[r], "cyclists_injured"))
       /\ Gt0(Cell(frame, frame.rows[r], "cyclists_killed"))

\* A document handled by lines 93-108 whose rows are all lists.
IsEnvelope(doc) ==
  /\ doc.type = "dict" /\ "data" \notin doc.keys
  /\ "rows" \in doc.keys /\ doc.rows.t = "list"
  /\ \A i \in 1..Len(doc.rows.elems) : doc.rows.elems[i].t = "list"

\* The column names can be extracted: columns is a list of objects with a name.
NamesGiven(doc) ==
  /\ "columns" \in doc.keys /\ doc.columns.t = "list"
  /\ \A j \in 1..Len(doc.columns.elems) : HasName(doc.columns.elems[j])

\* C21: the frame built from a {columns, rows} envelope has record i, field
\* columns[j].name, equal to rows[i][j]; when the names cannot be extracted the
\* fields are named 0, 1, ... by position and the rows are kept.
C21_RowsZipped ==
  (pc = "rename" /\ IsEnvelope(crash_data)) =>
    LET rows == crash_data.rows.elems
        position == <<"0", "1", "2", "3", "4", "5", "6", "7">>
    IN /\ Len(frame.rows) = Len(rows)
       /\ \A i \in 1..Len(rows) : \A j \in 1..Len(rows[i].vals) :
            frame.rows[i][j] = rows[i].vals[j]
       /\ \A j \in 1..Len(frame.cols) :
            frame.cols[j] = IF NamesGiven(crash_data)
                            THEN Lookup(crash_data.columns.elems[j].pairs, "name")
                            ELSE position[j]
       /\ rows # <<>> => Len(frame.cols) = Len(rows[1].vals)

\* C21 witness: two different rows of an envelope without column names were
\* built into a frame.
C21_Witness ==
  /\ pc = "rename" /\ IsEnvelope(crash_data) /\ ~NamesGiven(crash_data)
  /\ Len(frame.rows) = 2 /\ frame.rows[1] # frame.rows[2]


-----------------------------------------------------------------------------
(* analyze_proximity applied to a cleaned table and a station collection,    *)
(* then again with one more station                                          *)

MaxCrashes == 2
MaxStations == 2

Station(id, lat, lon) == [station_id |-> id, lat |-> lat, lon |-> lon]

StationKinds ==
  { Station("A", Num(400000), Num(-740000)),
    Station("B", Num(400005), Num(-740000)),
    Station("C", Num(400020), Num(-740010)),
    Station("D", Num(400100), Num(-740000)),
    Station("E", Absent, Num(-740000)),
    Station("F", NumStr(400000), NumStr(-740000)),
    Station("G", Num(400000), Num(2860000)) }

StationLists == SeqsUpTo(StationKinds, MaxStations)

ProxCases ==
  { <<Num(400000), Num(-740000), Num(1), Num(0)>>,
    <<NumStr(400020), NumStr(-740010), Num(0), Num(2)>>,
    <<Num(400040), Num(-740010), Num(1), Num(1)>> }

ProxFrames ==
  {clean_crash_data(ListDoc(Records(Canonical, cs))).df :
     cs \in SeqsUpTo(ProxCases, MaxCrashes) \ {<<>>}}

InitProximity ==
  /\ pc = "proximity"
  /\ crash_data = NoneDoc
  /\ frame \in ProxFrames
  /\ crashes_df = "frame"
  /\ stations \in StationLists
  /\ exc = "none"
  /\ out = {}
  /\ hav_calls = 0
  /\ stats = NoStats
  /\ extra = NoExtra
  /\ feeds = NoFeeds
  /\ combined = NoCombined
  /\ load = NoLoad
  /\ hav = NoHav

ProximityCall ==
  /\ pc = "proximity"
  /\ LET r == analyze_proximity(frame, stations)
     IN /\ frame' = r.df
        /\ crashes_df' = r.ret
        /\ exc' = r.exc
        /\ out' = r.out
        /\ hav_calls' = r.calls
        /\ stats' = r.stats
  /\ pc' = "analyzed"
  /\ UNCHANGED <<crash_data, stations, extra, feeds, combined, load, hav>>

\* The same table analysed over the stations and one more.
ProximityCallMore ==
  /\ pc = "analyzed"
  /\ \E t \in StationKinds :
       LET r == analyze_proximity(frame, Append(stations, t))
       IN extra' = [station |-> t, frame |-> r.df, stats |-> r.stats]
  /\ pc' = "analyzed_more"
  /\ UNCHANGED <<crash_data, frame, crashes_df, stations, exc, out, hav_calls, stats,
                 feeds, combined, load, hav>>

NextProximity == ProximityCall \/ ProximityCallMore

SpecProximity == InitProximity /\ [][NextProximity]_vars

HasDistances(df) == HasCol(df, "distance_to_nearest_station")

\* A station with numeric lat and lon.
NumericCoords(s) == s.lat.k = "num" /\ s.lon.k = "num"

NumericStations == {i \in 1..Len(stations) : NumericCoords(stations[i])}

CrashToStation(df, r, s) ==
  haversine(Cell(df, df.rows[r], "lon").n, Cell(df, df.rows[r], "lat").n, s.lon.n, s.lat.n)

C3_NoValidStations ==
  (pc = "analyzed" /\ NumericStations = {}) =>
    /\ MsgNoValid \in out
    /\ hav_calls = 0
    /\ ~HasDistances(frame)
    /\ exc = "none"

\* C3 witness: a non-empty collection without one valid station was analysed.
C3_Witness ==
  pc = "analyzed" /\ stations # <<>> /\ NumericStations = {} /\ Len(frame.rows) >= 1

BandCount(df, meters) ==
  Cardinality({r \in 1..Len(df.rows) : DistanceOf(df, r) <= meters * 100})

\* C7: the band counts are cumulative, count(<= 100) <= count(<= 250) <=
\* count(<= 500) <= number of crashes, each counted against the full distance.
C7_BandsCumulative ==
  (pc = "analyzed" /\ HasDistances(frame)) =>
    /\ stats.within_100m <= stats.within_250m
    /\ stats.within_250m <= stats.within_500m
    /\ stats.within_500m <= stats.total
    /\ stats.total = Len(frame.rows)
    /\ stats.within_100m = BandCount(frame, 100)
    /\ stats.within_250m = BandCount(frame, 250)
    /\ stats.within_500m = BandCount(frame, 500)

\* C7 witness: the three counts differ.
C7_Witness ==
  /\ pc = "analyzed" /\ HasDistances(frame)
  /\ 0 < stats.within_100m
  /\ stats.within_100m < stats.within_250m
  /\ stats.within_250m <= stats.within_500m

\* C8: adding a valid station never increases a crash's recorded nearest
\* distance, and decreases it when the station is strictly closer than the
\* nearest one before.
C8_Monotone ==
  (pc = "analyzed_more" /\ HasDistances(frame) /\ NumericCoords(extra.station)) =>
    \A r \in 1..Len(frame.rows) :
      /\ DistanceOf(extra.frame, r) <= DistanceOf(frame, r)
      /\ CrashToStation(frame, r, extra.station) < DistanceOf(frame, r)
           => DistanceOf(extra.frame, r) < DistanceOf(frame, r)

\* C8 witness: the added station is strictly closer to a crash.
C8_Witness ==
  /\ pc = "analyzed_more" /\ HasDistances(frame) /\ NumericCoords(extra.station)
  /\ \E r \in 1..Len(frame.rows) :
       CrashToStation(frame, r, extra.station) < DistanceOf(frame, r)

\* A station whose latitude is in [-90, 90] and whose longitude is in [-180, 180].
InRange(s) ==
  /\ NumericCoords(s)
  /\ -900000 <= s.lat.n /\ s.lat.n <= 900000
  /\ -1800000 <= s.lon.n /\ s.lon.n <= 1800000

InRangeStations == {i \in NumericStations : InRange(stations[i])}

\* C12: a station whose latitude or longitude is out of range is not among the
\* stations analyze_proximity scans and determines no crash's nearest distance.
C12_OutOfRangeExcluded ==
  (pc = "analyzed") =>
    /\ hav_calls = Len(frame.rows) * Cardinality(InRangeStations)
    /\ HasDistances(frame) =>
         \A r \in 1..Len(frame.rows) :
           \E i \in InRangeStations :
             CrashToStation(frame, r, stations[i]) = DistanceOf(frame, r)


-----------------------------------------------------------------------------
(* main of crash_data_diagnostic.py: load, clean, load the stations, menu.    *)
(* out keeps the diagnostics; the reports and pictures of a menu choice are  *)
(* output only and leave the state as it is.                                 *)

MsgLoadFailed == "Failed to load crash data. Exiting program."
MsgNoCrashes == "No valid crash data after cleaning. Exiting program."
MsgStationsFailed == "Failed to load station data. Exiting program."
MsgBye == "Exiting program. Goodbye!"

\* The documents load_crash_data can hand to main; NoneDoc is a failed load.
MainDocs ==
  {ListDoc(Records(Canonical, cs)) : cs \in SeqsUpTo(ProxCases, MaxCrashes)}
  \cup
  { NoneDoc,
    DictDoc({"meta"}, JNull, JNull, JNull),
    ListDoc(Records(Aliases, <<<<Num(400000), Num(-740000), Num(1), Null>>>>)),
    ListDoc(Records(Canonical, <<<<Num(400000), Num(-740000), Num(0), Num(0)>>>>)),
    ListDoc(Records(<<"lat", "lon", "cyclists_injured">>,
                    <<<<Num(400000), Num(-740000), Num(1), Num(0)>>>>)) }
  \cup
  {ListDoc(Records(<<"date", "lat", "lon", "cyclists_injured", "cyclists_killed">>, cs)) :
     cs \in { <<<<Num(400000), Num(-740000), Num(1), Num(0), DateStr(1)>>,
                <<Num(400020), Num(-740010), Num(0), Num(2), DateStr(7)>>>>,
              <<<<Num(400000), Num(-740000), Num(1), Num(0), DateStr(1)>>,
                <<Num(400040), Num(-740010), Num(1), Num(1), Junk>>>>,
              <<<<Num(400000), Num(-740000), Num(1), Num(0), DateStr(1)>>,
                <<Num(400000), Num(-740000), Num(2), Num(0), Null>>>>,
              <<<<Num(400000), Num(-740000), Num(2), Num(0), Null>>>> }}

Init ==
  /\ pc = "load_crash_data"
  /\ crash_data = NoneDoc
  /\ frame = EmptyFrame
  /\ crashes_df = "unset"
  /\ stations = <<>>
  /\ exc = "none"
  /\ out = {}
  /\ hav_calls = 0
  /\ stats = NoStats
  /\ extra = NoExtra
  /\ feeds = NoFeeds
  /\ combined = NoCombined
  /\ load = NoLoad
  /\ hav = NoHav

\* Lines 714-735.
LoadCrashData ==
  /\ pc = "load_crash_data"
  /\ \E doc \in MainDocs :
       /\ crash_data' = doc
       /\ IF Truthy(doc)
          THEN pc' = "clean" /\ out' = out
          ELSE pc' = "exit" /\ out' = out \cup {MsgLoadFailed}
  /\ UNCHANGED <<frame, crashes_df, stations, exc, hav_calls, stats, extra, feeds, combined, load, hav>>

NeverNoCrashes(df) == FALSE

\* Line 740: len(crashes_df) == 0
NoCrashes(df) == Len(df.rows) = 0

\* Lines 738-742.
CleanCrashData ==
  /\ pc = "clean"
  /\ LET r == clean_crash_data(crash_data)
     IN IF r.exc # "none"
        THEN /\ pc' = "crashed" /\ exc' = r.exc /\ out' = out \cup r.out
             /\ UNCHANGED <<frame, crashes_df>>
        ELSE /\ frame' = r.df /\ crashes_df' = "frame" /\ exc' = exc
             /\ IF NoCrashes(r.df)
                THEN pc' = "exit" /\ out' = out \cup r.out \cup {MsgNoCrashes}
                ELSE pc' = "load_stations" /\ out' = out \cup r.out
  /\ UNCHANGED <<crash_data, stations, hav_calls, stats, extra, feeds, combined, load, hav>>

\* Lines 747-756; load_citibike_data returns None when the file cannot be read.
LoadStations ==
  /\ pc = "load_stations"
  /\ \E sts \in StationLists :
       /\ stations' = sts
       /\ IF sts # <<>>
          THEN pc' = "menu" /\ out' = out
          ELSE pc' = "exit" /\ out' = out \cup {MsgStationsFailed}
  /\ UNCHANGED <<crash_data, frame, crashes_df, exc, hav_calls, stats, extra, feeds, combined, load, hav>>

Raise(e) ==
  /\ pc' = "crashed"
  /\ exc' = e
  /\ UNCHANGED <<crash_data, frame, crashes_df, stations, out, hav_calls, stats, extra,
                 feeds, combined, load, hav>>

\* series.dt.month on one cell: the month of a date, NaN for NaT.
MonthOf(v) == IF v.k = "datetime" THEN Num(v.n) ELSE NaN

AddMonthReversed(df) ==
  LET n == Len(df.rows)
      back == [df EXCEPT !.rows = [r \in 1..n |-> df.rows[n + 1 - r]]]
  IN SetCol(back, "month", [r \in 1..n |-> MonthOf(Cell(back, back.rows[r], "date"))])

\* Line 213: crashes_df['month'] = crashes_df['date'].dt.month
AddMonth(df) ==
  SetCol(df, "month", [r \in 1..Len(df.rows) |-> MonthOf(Cell(df, df.rows[r], "date"))])

\* The date column has the datetime dtype: line 190 has parsed it.
IsDatetimeColumn(df) ==
  /\ ColCount(df, "date") = 1
  /\ \A r \in 1..Len(df.rows) : Cell(df, df.rows[r], "date").k \in {"datetime", "nat"}

\* analyze_crash_data(crashes_df), lines 197-234: the exception and the frame
\* after the call.  The .dt accessor raises AttributeError on a column that is
\* not of datetime dtype; with a NaT in the column the months are floats, and
\* datetime(2024, month, 1) at line 217 raises TypeError on a float.
analyze_crash_data(df) ==
  IF ~HasCol(df, "date") THEN [exc |-> "none", df |-> df]
  ELSE IF ~IsDatetimeColumn(df) THEN [exc |-> "AttributeError", df |-> df]
  ELSE IF /\ \E r \in 1..Len(df.rows) : Cell(df, df.rows[r], "date").k = "nat"
          /\ \E r \in 1..Len(df.rows) : Cell(df, df.rows[r], "date").k = "datetime"
  THEN [exc |-> "TypeError", df |-> AddMonth(df)]
  ELSE [exc |-> "none", df |-> AddMonth(df)]

\* Lines 770-771 and analyze_crash_data (197-234): len(None) is a TypeError.
Choice1 ==
  /\ pc = "menu"
  /\ IF crashes_df = "None" THEN Raise("TypeError")
     ELSE LET r == analyze_crash_data(frame)
          IN /\ frame' = r.df
             /\ exc' = IF r.exc = "none" THEN exc ELSE r.exc
             /\ pc' = IF r.exc = "none" THEN pc ELSE "crashed"
             /\ UNCHANGED <<crash_data, crashes_df, stations, out, hav_calls,
                            stats, extra, feeds, combined, load, hav>>

\* Lines 772-773: crashes_df = analyze_proximity(crashes_df, stations).  With
\* crashes_df None the call returns None again before it touches the table, or
\* fails at None.iterrows().
Choice2 ==
  /\ pc = "menu"
  /\ IF crashes_df = "None"
     THEN IF NoValidStations(valid_stations(stations))
          THEN /\ out' = out \cup {MsgNoValid}
               /\ UNCHANGED <<pc, crash_data, frame, crashes_df, stations, exc, hav_calls,
                              stats, extra, feeds, combined, load, hav>>
          ELSE Raise("AttributeError")
     ELSE LET r == analyze_proximity(frame, stations)
          IN /\ frame' = r.df
             /\ crashes_df' = r.ret
             /\ out' = out \cup r.out
             /\ hav_calls' = r.calls
             /\ stats' = r.stats
             /\ UNCHANGED <<pc, crash_data, stations, exc, extra, feeds, combined, load, hav>>

\* Lines 774-775 and plot_crash_data (284-327): None['total_cyclist_casualties']
\* is a TypeError.
Choice3 ==
  /\ pc = "menu"
  /\ IF crashes_df = "None" THEN Raise("TypeError")
     ELSE /\ out' = out
          /\ UNCHANGED <<pc, crash_data, frame, crashes_df, stations, exc, hav_calls,
                         stats, extra, feeds, combined, load, hav>>

\* int(NaN) at lines 360-362 is a ValueError.
HasNaNCount(df) ==
  \E r \in 1..Len(df.rows) :
    \E c \in {"cyclists_injured", "cyclists_killed", "total_cyclist_casualties"} :
      isna(Cell(df, df.rows[r], c))

\* Lines 367-369 and 464: a parsed date is copied into the record as a
\* Timestamp, which json.dumps rejects with a TypeError.
HasTimestamp(df) ==
  /\ ColCount(df, "date") = 1
  /\ \E r \in 1..Len(df.rows) : Cell(df, df.rows[r], "date").k = "datetime"

\* Lines 776-777 and create_interactive_map (329-704): None.iterrows() is an
\* AttributeError.
Choice4 ==
  /\ pc = "menu"
  /\ IF crashes_df = "None" THEN Raise("AttributeError")
     ELSE IF HasNaNCount(frame) THEN Raise("ValueError")
     ELSE IF HasTimestamp(frame) THEN Raise("TypeError")
     ELSE /\ out' = out
          /\ UNCHANGED <<pc, crash_data, frame, crashes_df, stations, exc, hav_calls,
                         stats, extra, feeds, combined, load, hav>>

\* Lines 778-780.
Choice5 ==
  /\ pc = "menu"
  /\ pc' = "exit"
  /\ out' = out \cup {MsgBye}
  /\ UNCHANGED <<crash_data, frame, crashes_df, stations, exc, hav_calls, stats, extra,
                 feeds, combined, load, hav>>

\* Lines 781-782.
ChoiceInvalid ==
  /\ pc = "menu"
  /\ out' = out
  /\ UNCHANGED <<pc, crash_data, frame, crashes_df, stations, exc, hav_calls, stats,
                 extra, feeds, combined, load, hav>>

Next ==
  \/ LoadCrashData
  \/ CleanCrashData
  \/ LoadStations
  \/ Choice1
  \/ Choice2
  \/ Choice3
  \/ Choice4
  \/ Choice5
  \/ ChoiceInvalid

Spec == Init /\ [][Next]_vars

\* C4: a proximity step that finds zero valid stations ends only that step: the
\* menu loop goes on, main still holds the cleaned crash table, and no later
\* choice fails.
C4_DegenerateStepOnly ==
  (MsgNoValid \in out) => (crashes_df = "frame" /\ pc # "crashed")

C22_Choice1Completes ==
  [][(Choice1 /\ crashes_df = "frame") => pc' = "menu"]_vars

\* No analysis step has left a trace: no distance, no month, no band count, no
\* call of haversine, no report of a proximity step.
NoAnalysis(df, calls, st, o) ==
  /\ ~HasDistances(df) /\ ~HasCol(df, "month")
  /\ calls = 0 /\ st = NoStats
  /\ o \cap {MsgNoValid, MsgProximity} = {}

\* C23: the menu is entered only with a cleaned crash table of at least one
\* record and a non-empty station collection; a failed load, an empty table
\* after cleaning and a missing or empty station file each end the run, and no
\* analysis step has run before the menu is entered.
C23_MenuGate ==
  [][/\ (pc' = "menu") => (Len(frame'.rows) >= 1 /\ stations' # <<>>)
     /\ (pc # "menu" /\ pc' = "menu") =>
          (pc = "load_stations" /\ crashes_df' = "frame" /\ exc' = "none")
     /\ (pc = "load_crash_data" /\ ~Truthy(crash_data')) => pc' = "exit"
     /\ (pc = "clean" /\ exc' = "none" /\ Len(frame'.rows) = 0) => pc' = "exit"
     /\ (pc = "load_stations" /\ stations' = <<>>) => pc' = "exit"
     /\ (pc \in {"load_crash_data", "clean", "load_stations"}) =>
          NoAnalysis(frame', hav_calls', stats', out')]_vars

\* C23 witness: the menu has just been entered with one crash and one station.
C23_Witness ==
  /\ pc = "menu" /\ crashes_df = "frame"
  /\ Len(frame.rows) = 1 /\ Len(stations) = 1
  /\ NoAnalysis(frame, hav_calls, stats, out)

Protected ==
  {"lat", "lon", "cyclists_injured", "cyclists_killed", "total_cyclist_casualties",
   "distance_to_nearest_station"}

\* C25: menu choices 1, 3, 4 and an invalid choice keep the crash records and
\* their order, keep lat, lon, cyclists_injured, cyclists_killed and
\* total_cyclist_casualties of every record, and keep every existing
\* distance_to_nearest_station; a step that writes the distance is choice 2.
C25_ReadOnlyChoices ==
  [][/\ (Choice1 \/ Choice3 \/ Choice4 \/ ChoiceInvalid) =>
          /\ crashes_df' = crashes_df
          /\ Len(frame'.rows) = Len(frame.rows)
          /\ \A c \in Protected :
               /\ HasCol(frame', c) <=> HasCol(frame, c)
               /\ HasCol(frame, c) => Column(frame', c) = Column(frame, c)
     /\ (/\ pc = "menu"
         /\ HasDistances(frame')
         /\ \/ ~HasDistances(frame)
            \/ Column(frame', "distance_to_nearest_station") #
                 Column(frame, "distance_to_nearest_station")) => Choice2]_vars

\* C25 witness: choice 1 has added the month to a table of two crashes that
\* choice 2 had annotated.
C25_Witness ==
  /\ pc = "menu" /\ crashes_df = "frame"
  /\ Len(frame.rows) = 2 /\ HasCol(frame, "month") /\ HasDistances(frame)
  /\ frame.rows[1] # frame.rows[2]

\* C26: a second proximity step over the same stations leaves the distance of
\* every crash record and the band counts as the first step left them.
C26_ProximityIdempotent ==
  (pc = "menu" /\ crashes_df = "frame" /\ HasDistances(frame)) =>
    LET again == analyze_proximity(frame, stations)
    IN /\ again.exc = "none" /\ again.ret = "frame"
       /\ again.df.cols = frame.cols
       /\ Column(again.df, "distance_to_nearest_station") =
            Column(frame, "distance_to_nearest_station")
       /\ again.stats = stats

\* C26 witness: the menu after a proximity step over two stations that gave two
\* crashes different distances.
C26_Witness ==
  /\ pc = "menu" /\ crashes_df = "frame" /\ HasDistances(frame)
  /\ Len(stations) = 2 /\ Len(frame.rows) = 2 /\ stats.total = 2
  /\ DistanceOf(frame, 1) # DistanceOf(frame, 2)


-----------------------------------------------------------------------------
(* haversine applied to two points, in both directions                        *)

\* Points <<lon, lat>> in 1e-4 degree: the crash and station sites, a longitude
\* beyond 180 degrees, and the two ends of a quarter meridian.
HavPoints ==
  {<<lo, la>> : lo \in {-740000, -740010},
                la \in {400000, 400005, 400020, 400040, 400100}}
  \cup {<<2860000, 400000>>, <<0, 0>>, <<0, 900000>>}

InitHaversine ==
  /\ pc = "haversine"
  /\ crash_data = NoneDoc
  /\ frame = EmptyFrame
  /\ crashes_df = "unset"
  /\ stations = <<>>
  /\ exc = "none"
  /\ out = {}
  /\ hav_calls = 0
  /\ stats = NoStats
  /\ extra = NoExtra
  /\ feeds = NoFeeds
  /\ combined = NoCombined
  /\ load = NoLoad
  /\ \E p, q \in HavPoints : hav = [p |-> p, q |-> q, pq |-> 0, qp |-> 0]

\* haversine(P, Q) and haversine(Q, P)
HaversineCall ==
  /\ pc = "haversine"
  /\ hav' = [hav EXCEPT !.pq = haversine(hav.p[1], hav.p[2], hav.q[1], hav.q[2]),
                        !.qp = haversine(hav.q[1], hav.q[2], hav.p[1], hav.p[2])]
  /\ pc' = "haversine_done"
  /\ UNCHANGED <<crash_data, frame, crashes_df, stations, exc, out, hav_calls, stats, extra,
                 feeds, combined, load>>

NextHaversine == HaversineCall

SpecHaversine == InitHaversine /\ [][NextHaversine]_vars

\* C15: haversine is 0 for two identical points, haversine(P, Q) equals
\* haversine(Q, P), and haversine(0, 0, 0, 90) is 10007543 m within 1 m
\* (distances are in centimetres).
C15_HaversineExact ==
  (pc = "haversine_done") =>
    /\ hav.p = hav.q => hav.pq = 0
    /\ hav.pq = hav.qp
    /\ (hav.p = <<0, 0>> /\ hav.q = <<0, 900000>>) =>
         (hav.pq >= 1000754300 - 100 /\ hav.pq <= 1000754300 + 100)

\* C15 witness: the quarter meridian from (0, 0) to latitude 90, a non-zero distance.
C15_Witness ==
  /\ pc = "haversine_done"
  /\ hav.p = <<0, 0>> /\ hav.q = <<0, 900000>> /\ hav.pq > 0

-----------------------------------------------------------------------------
(* load_crash_data, followed by main's test of what it returned               *)

MsgApiError == "Error fetching data from API"
MsgFileNotFound == "Error: File not found"
MsgFileInvalid == "Error: File does not contain valid JSON"

\* What the network or the file system gives: a decoded JSON document or an exception.
Got(doc) == [ok |-> TRUE, doc |-> doc, err |-> "none"]
Failed(e) == [ok |-> FALSE, doc |-> NoneDoc, err |-> e]

\* "if api_url:" and "if file_path:" : None and the empty string are falsy.
IsGiven(arg) == arg # "None" /\ arg # ""

\* len(data) at lines 39 and 50: None (a JSON null) has no len().
HasLen(doc) == doc.type # "null"

OnRequestExceptionRetry == [reported |-> 2, requests |-> 1]

\* Lines 41-43: the handler prints the error once and requests nothing.
OnRequestException == [reported |-> 1, requests |-> 0]

\* Lines 45-55: the file is read; FileNotFoundError and json.JSONDecodeError
\* are reported, any other exception leaves the function.
load_from_file(file) ==
  IF file.ok
  THEN IF HasLen(file.doc)
       THEN [data |-> file.doc, exc |-> "none", out |-> {}]
       ELSE [data |-> NoneDoc, exc |-> "TypeError", out |-> {}]
  ELSE IF file.err = "FileNotFoundError"
  THEN [data |-> NoneDoc, exc |-> "none", out |-> {MsgFileNotFound}]
  ELSE IF file.err = "JSONDecodeError"
  THEN [data |-> NoneDoc, exc |-> "none", out |-> {MsgFileInvalid}]
  ELSE [data |-> NoneDoc, exc |-> file.err, out |-> {}]

\* load_crash_data(api_url, file_path), given what the network and the file
\* give: the value returned, the exception that leaves the call, the number of
\* requests made, the number of times the fetch error was printed, the output.
load_crash_data(api_url, file_path, fetch, file) ==
  LET none == [data |-> NoneDoc, exc |-> "none", out |-> {}]
      local == IF IsGiven(file_path) THEN load_from_file(file) ELSE none
  IN IF IsGiven(api_url) /\ fetch.ok
     THEN IF HasLen(fetch.doc)
          THEN [data |-> fetch.doc, exc |-> "none", requests |-> 1, reported |-> 0, out |-> {}]
          ELSE [data |-> NoneDoc, exc |-> "TypeError", requests |-> 1, reported |-> 0,
                out |-> {}]
     ELSE IF IsGiven(api_url)
     THEN [data |-> local.data, exc |-> local.exc,
           requests |-> 1 + OnRequestException.requests,
           reported |-> OnRequestException.reported,
           out |-> {MsgApiError} \cup local.out]
     ELSE [data |-> local.data, exc |-> local.exc, requests |-> 0, reported |-> 0,
           out |-> local.out]

LoadArgs == {"None", "", "given"}

\* Documents a server or a file can hold.
LoadDocs ==
  { ListDoc(Records(Canonical, <<<<Num(400000), Num(-740000), Num(1), Num(0)>>>>)),
    ListDoc(<<>>),
    DictDoc({"meta"}, JNull, JNull, JNull),
    NoneDoc }

\* requests.get and raise_for_status raise subclasses of RequestException.
FetchOutcomes ==
  {Got(d) : d \in LoadDocs} \cup
  {Failed(e) : e \in {"ConnectionError", "Timeout", "HTTPError"}}

FileOutcomes ==
  {Got(d) : d \in LoadDocs} \cup
  {Failed(e) : e \in {"FileNotFoundError", "JSONDecodeError", "PermissionError"}}

InitLoad ==
  /\ pc = "load_crash_data"
  /\ crash_data = NoneDoc
  /\ frame = EmptyFrame
  /\ crashes_df = "unset"
  /\ stations = <<>>
  /\ exc = "none"
  /\ out = {}
  /\ hav_calls = 0
  /\ stats = NoStats
  /\ extra = NoExtra
  /\ feeds = NoFeeds
  /\ combined = NoCombined
  /\ \E a, f \in LoadArgs : \E n \in FetchOutcomes : \E l \in FileOutcomes :
       load = [api_url |-> a, file_path |-> f, fetch |-> n, file |-> l,
               requests |-> 0, reported |-> 0]
  /\ hav = NoHav

\* crash_data = load_crash_data(api_url, file_path)
LoadCall ==
  /\ pc = "load_crash_data"
  /\ LET r == load_crash_data(load.api_url, load.file_path, load.fetch, load.file)
     IN /\ crash_data' = r.data
        /\ exc' = r.exc
        /\ out' = r.out
        /\ load' = [load EXCEPT !.requests = r.requests, !.reported = r.reported]
        /\ pc' = IF r.exc = "none" THEN "loaded" ELSE "crashed"
  /\ UNCHANGED <<frame, crashes_df, stations, hav_calls, stats, extra, feeds, combined, hav>>

\* main, lines 733-735: "if not crash_data".
FailedGate ==
  /\ pc = "loaded"
  /\ IF Truthy(crash_data)
     THEN pc' = "clean" /\ out' = out
     ELSE pc' = "exit" /\ out' = out \cup {MsgLoadFailed}
  /\ UNCHANGED <<crash_data, frame, crashes_df, stations, exc, hav_calls, stats, extra,
                 feeds, combined, load, hav>>

NextLoad == LoadCall \/ FailedGate

SpecLoad == InitLoad /\ [][NextLoad]_vars

FetchFailed == pc # "load_crash_data" /\ IsGiven(load.api_url) /\ ~load.fetch.ok

\* C13: when the network fetch fails, the failure is reported exactly once, the
\* URL is requested once only, and the call goes on as a load of the supplied
\* file alone does; without a file it returns no data and main exits with
\* 'Failed to load crash data'.
C13_FetchFailureOnce ==
  FetchFailed =>
    /\ load.reported = 1
    /\ load.requests = 1
    /\ LET alone == load_crash_data("None", load.file_path, load.fetch, load.file)
       IN /\ exc = alone.exc
          /\ crash_data = alone.data
          /\ alone.out \subseteq out
    /\ ~IsGiven(load.file_path) =>
         /\ crash_data = NoneDoc /\ exc = "none"
         /\ pc \in {"loaded", "exit"}
         /\ pc = "exit" => MsgLoadFailed \in out

\* C13 witness: the fetch failed and the run goes on with the contents of the file.
C13_Witness ==
  /\ FetchFailed /\ pc = "clean"
  /\ load.file.ok /\ crash_data = load.file.doc

-----------------------------------------------------------------------------
(* citibike_analyzer_v2.py: main's menu over the loaded station collection    *)

MaxLoaded == 2

MsgNoPlot == "No valid stations to plot."
MsgNoMap == "No valid stations to display on the map."

\* A utilization value: the quotient n / d, or no value.
Ratio(n, d) == IF n = 0 THEN [k |-> "ratio", n |-> 0, d |-> 1] ELSE [k |-> "ratio", n |-> n, d |-> d]
NoRatio == [k |-> "absent", n |-> 0, d |-> 1]

\* A station record of the combined dataset; Absent marks a key the record lacks.
StationRecord(id, installed, renting, capacity, bikes, lat, lon) ==
  [station_id |-> id, is_installed |-> installed, is_renting |-> renting,
   capacity |-> capacity, num_bikes_available |-> bikes, lat |-> lat, lon |-> lon,
   utilization |-> NoRatio]

\* dict.get(key, default)
GetOr(v, default) == IF v.k = "absent" THEN Num(default) ELSE v

\* s.get('is_installed', 1) == 1 and s.get('is_renting', 1) == 1
IsActive(s) == GetOr(s.is_installed, 1) = Num(1) /\ GetOr(s.is_renting, 1) = Num(1)

\* 'lat' in s and 'lon' in s and both are int or float
HasCoords(s) == IsNumber(s.lat) /\ IsNumber(s.lon)

\* The sums of lines 32-35 raise TypeError on a value that is no number.
Summable(sts) ==
  \A i \in 1..Len(sts) :
    IsNumber(GetOr(sts[i].capacity, 0)) /\ IsNumber(GetOr(sts[i].num_bikes_available, 0))

\* bikes / capacity if capacity > 0 else 0
Utilization(s) ==
  IF GetOr(s.capacity, 0).n > 0
  THEN Ratio(GetOr(s.num_bikes_available, 0).n, GetOr(s.capacity, 0).n)
  ELSE Ratio(0, 1)

SetUtilizationAndCapacity(s) ==
  [s EXCEPT !.utilization = Utilization(s), !.capacity = GetOr(s.capacity, 0)]

\* Lines 61-66: station['utilization'] = ...
SetUtilization(s) == [s EXCEPT !.utilization = Utilization(s)]

\* analyze_stations(stations): the exception, and the collection after the call.
analyze_stations(sts) ==
  IF ~Summable(sts) THEN [exc |-> "TypeError", stations |-> sts]
  ELSE [exc |-> "none",
        stations |-> [i \in 1..Len(sts) |->
                        IF IsActive(sts[i]) THEN SetUtilization(sts[i]) ELSE sts[i]]]

\* The comparisons and quotients of lines 112-116 and 179-185 raise TypeError
\* on a value that is no number.
Drawable(s) ==
  /\ IsNumber(GetOr(s.capacity, 0))
  /\ GetOr(s.capacity, 0).n > 0 => IsNumber(GetOr(s.num_bikes_available, 0))

\* plot_stations(stations): installed stations with coordinates are drawn.
plot_stations(sts) ==
  LET Valid(st) == GetOr(st.is_installed, 1) = Num(1) /\ HasCoords(st)
      valid == SelectSeq(sts, Valid)
  IN IF valid = <<>> THEN [exc |-> "none", out |-> {MsgNoPlot}]
     ELSE IF \E i \in 1..Len(valid) : ~Drawable(valid[i])
     THEN [exc |-> "TypeError", out |-> {}]
     ELSE [exc |-> "none", out |-> {}]

\* create_interactive_map(stations) of citibike_analyzer_v2.py.
create_station_map(sts) ==
  LET valid == SelectSeq(sts, HasCoords)
  IN IF valid = <<>> THEN [exc |-> "none", out |-> {MsgNoMap}]
     ELSE IF \E i \in 1..Len(valid) : ~Drawable(valid[i])
     THEN [exc |-> "TypeError", out |-> {}]
     ELSE [exc |-> "none", out |-> {}]

LoadedKinds ==
  { StationRecord("A", Num(1), Num(1), Num(10), Num(5), Num(400000), Num(-740000)),
    StationRecord("B", Num(1), Num(1), Num(0), Num(0), Num(400005), Num(-740000)),
    StationRecord("C", Num(0), Num(1), Num(10), Num(3), Num(400020), Num(-740010)),
    StationRecord("D", Absent, Absent, Absent, Num(4), Num(400100), Num(-740000)),
    StationRecord("E", Num(1), Num(1), Junk, Num(2), Num(400000), Num(-740010)),
    StationRecord("F", Num(1), Num(0), Num(20), Num(20), Absent, Num(-740000)),
    StationRecord("G", Num(1), Num(1), Num(-5), Num(2), NumStr(400000), Num(-740000)) }

InitStations ==
  /\ pc = "load_combined_data"
  /\ crash_data = NoneDoc
  /\ frame = EmptyFrame
  /\ crashes_df = "unset"
  /\ stations = <<>>
  /\ exc = "none"
  /\ out = {}
  /\ hav_calls = 0
  /\ stats = NoStats
  /\ extra = NoExtra
  /\ feeds = NoFeeds
  /\ combined = NoCombined
  /\ load = NoLoad
  /\ hav = NoHav

\* main, lines 350-357: stations = load_combined_data(file_path); "if not stations".
LoadCombinedData ==
  /\ pc = "load_combined_data"
  /\ \E sts \in SeqsUpTo(LoadedKinds, MaxLoaded) :
       /\ stations' = sts
       /\ IF sts # <<>>
          THEN pc' = "station_menu" /\ out' = out
          ELSE pc' = "exit" /\ out' = out \cup {MsgStationsFailed}
  /\ UNCHANGED <<crash_data, frame, crashes_df, exc, hav_calls, stats, extra, feeds,
                 combined, load, hav>>

\* Choice 1.
AnalyzeStations ==
  /\ pc = "station_menu"
  /\ LET r == analyze_stations(stations)
     IN /\ stations' = r.stations
        /\ exc' = r.exc
        /\ pc' = IF r.exc = "none" THEN pc ELSE "crashed"
  /\ UNCHANGED <<crash_data, frame, crashes_df, out, hav_calls, stats, extra, feeds,
                 combined, load, hav>>

\* Choice 2.
PlotStations ==
  /\ pc = "station_menu"
  /\ LET r == plot_stations(stations)
     IN /\ exc' = r.exc
        /\ out' = out \cup r.out
        /\ pc' = IF r.exc = "none" THEN pc ELSE "crashed"
  /\ UNCHANGED <<crash_data, frame, crashes_df, stations, hav_calls, stats, extra, feeds,
                 combined, load, hav>>

\* Choice 3.
CreateStationMap ==
  /\ pc = "station_menu"
  /\ LET r == create_station_map(stations)
     IN /\ exc' = r.exc
        /\ out' = out \cup r.out
        /\ pc' = IF r.exc = "none" THEN pc ELSE "crashed"
  /\ UNCHANGED <<crash_data, frame, crashes_df, stations, hav_calls, stats, extra, feeds,
                 combined, load, hav>>

\* Choice 4.
ExitStations ==
  /\ pc = "station_menu"
  /\ pc' = "exit"
  /\ out' = out \cup {MsgBye}
  /\ UNCHANGED <<crash_data, frame, crashes_df, stations, exc, hav_calls, stats, extra,
                 feeds, combined, load, hav>>

\* Any other choice.
InvalidStationChoice ==
  /\ pc = "station_menu"
  /\ UNCHANGED vars

NextStations ==
  \/ LoadCombinedData
  \/ AnalyzeStations
  \/ PlotStations
  \/ CreateStationMap
  \/ ExitStations
  \/ InvalidStationChoice

SpecStations == InitStations /\ [][NextStations]_vars

\* The attributes of a station record other than utilization.
Attributes(s) == [s EXCEPT !.utilization = NoRatio]

\* The utilization of s is num_bikes_available / capacity when capacity > 0, else 0.
IsDerived(s) ==
  /\ s.utilization.k = "ratio"
  /\ IF s.capacity.k = "num" /\ s.capacity.n > 0
     THEN s.utilization.n * s.capacity.n = GetOr(s.num_bikes_available, 0).n * s.utilization.d
     ELSE s.utilization.n = 0

\* C17: once the collection is loaded, no operation of the station analyzer, in
\* any order and any number of times, changes an attribute of a station record
\* other than utilization, and a utilization that is set is
\* num_bikes_available / capacity when capacity > 0 and 0 otherwise.
C17_OnlyUtilizationDerived ==
  [][(pc = "station_menu") =>
       /\ Len(stations') = Len(stations)
       /\ \A i \in 1..Len(stations) :
            /\ Attributes(stations'[i]) = Attributes(stations[i])
            /\ stations'[i].utilization = NoRatio \/ IsDerived(stations'[i])]_vars

\* C17 witness: an analysis has set a utilization strictly between 0 and 1 on
\* one station and 0 on a station without capacity.
C17_Witness ==
  /\ pc = "station_menu"
  /\ \E i, j \in 1..Len(stations) :
       /\ stations[i].utilization.k = "ratio" /\ stations[i].utilization.n > 0
       /\ stations[j].utilization.k = "ratio" /\ stations[j].utilization.n = 0
       /\ GetOr(stations[j].capacity, 0).n <= 0

-----------------------------------------------------------------------------
(* inspect_api_data of citibike_diagnostic.py: the combined dataset           *)

MaxInfo == 2
MaxStatus == 2

MsgInfoError == "Error fetching station information"

\* dict.get(key): the value, or None.
PyNone == "None"
HasKey(d, key) == \E i \in 1..Len(d) : d[i][1] = key
Get(d, key) == IF HasKey(d, key) THEN d[CHOOSE i \in 1..Len(d) : d[i][1] = key][2] ELSE PyNone

\* Python truthiness of a station_id: None and the empty string are falsy.
IsTruthy(v) == v # PyNone /\ v # ""

MergeInfoWins(a, b) ==
  LET Fresh(p) == \A i \in 1..Len(a) : a[i][1] # p[1]
  IN a \o SelectSeq(b, Fresh)

\* {**a, **b}
Merge(a, b) ==
  LET Fresh(p) == ~HasKey(a, p[1])
  IN [i \in 1..Len(a) |-> IF HasKey(b, a[i][1]) THEN <<a[i][1], Get(b, a[i][1])>> ELSE a[i]]
     \o SelectSeq(b, Fresh)

\* Line 85: {station['station_id']: station for station in info_stations};
\* a later record replaces an earlier one with the same id.
station_info_dict(info_stations) ==
  [id \in {Get(info_stations[i], "station_id") : i \in 1..Len(info_stations)} |->
     info_stations[CHOOSE i \in 1..Len(info_stations) :
        /\ Get(info_stations[i], "station_id") = id
        /\ \A j \in 1..Len(info_stations) :
             Get(info_stations[j], "station_id") = id => j <= i]]

\* Line 96.
Joins(status, dict) ==
  IsTruthy(Get(status, "station_id")) /\ Get(status, "station_id") \in DOMAIN dict

\* Lines 93-99.
combined_stations(dict, status_stations) ==
  LET Kept(status) == Joins(status, dict)
      kept == SelectSeq(status_stations, Kept)
  IN [i \in 1..Len(kept) |-> Merge(dict[Get(kept[i], "station_id")], kept[i])]

\* "" stands for a station_id that is falsy in Python ("" or 0).
StationIds == {"A", "B", ""}

InfoRecords ==
  {<< <<"station_id", id>>, <<"name", nm>> >> : id \in StationIds, nm \in {"n1", "n2"}}
  \cup {<< <<"name", "n1">> >>}

StatusRecords ==
  {<< <<"station_id", id>>, <<"num_bikes_available", "5">> >> : id \in StationIds}
  \cup {<< <<"num_bikes_available", "5">> >>,
        << <<"station_id", "A">>, <<"name", "ns">>, <<"num_bikes_available", "3">> >>}

Feed(has, sts) == [has |-> has, stations |-> sts]

InitInspect ==
  /\ pc = "inspect"
  /\ crash_data = NoneDoc
  /\ frame = EmptyFrame
  /\ crashes_df = "unset"
  /\ stations = <<>>
  /\ exc = "none"
  /\ out = {}
  /\ hav_calls = 0
  /\ stats = NoStats
  /\ extra = NoExtra
  /\ \E i \in SeqsUpTo(InfoRecords, MaxInfo), st \in SeqsUpTo(StatusRecords, MaxStatus) :
       \E hi, hs \in BOOLEAN :
         feeds = [info |-> Feed(hi, IF hi THEN i ELSE <<>>),
                  status |-> Feed(hs, IF hs THEN st ELSE <<>>)]
  /\ combined = NoCombined
  /\ load = NoLoad
  /\ hav = NoHav

\* Lines 71-101.  A record of the information feed without station_id raises
\* KeyError at line 85, caught at line 120.
CombineFeeds ==
  /\ pc = "inspect"
  /\ IF ~feeds.info.has
     THEN combined' = NoCombined /\ out' = out
     ELSE IF \E i \in 1..Len(feeds.info.stations) : ~HasKey(feeds.info.stations[i], "station_id")
     THEN combined' = NoCombined /\ out' = out \cup {MsgInfoError}
     ELSE /\ combined' =
               [built |-> TRUE,
                stations |-> combined_stations(station_info_dict(feeds.info.stations),
                               IF feeds.status.has THEN feeds.status.stations ELSE <<>>)]
          /\ out' = out
  /\ pc' = "combined"
  /\ UNCHANGED <<crash_data, frame, crashes_df, stations, exc, hav_calls, stats, extra, feeds, load, hav>>

NextInspect == CombineFeeds

SpecInspect == InitInspect /\ [][NextInspect]_vars

IdsOf(sts) == {Get(sts[i], "station_id") : i \in {j \in 1..Len(sts) : HasKey(sts[j], "station_id")}}

\* C6: the combined dataset holds a record for identifier X exactly when X is a
\* station_id of both the information feed and the status feed.
C6_InnerJoin ==
  (pc = "combined" /\ combined.built) =>
    IdsOf(combined.stations) = IdsOf(feeds.info.stations) \cap IdsOf(feeds.status.stations)

KeysOf(d) == {d[i][1] : i \in 1..Len(d)}

\* C27: every entry of the status feed gives at most one combined record, the
\* combined records follow the order of the status feed, a field present in
\* both records carries the value of the status record, and of several
\* information records with one station_id the last is the one merged.
C27_StatusOrderAndPrecedence ==
  (pc = "combined" /\ combined.built) =>
    LET info == feeds.info.stations
        status == IF feeds.status.has THEN feeds.status.stations ELSE <<>>
        InfoOf(id) == {i \in 1..Len(info) : Get(info[i], "station_id") = id}
        LastOf(id) == CHOOSE i \in InfoOf(id) : \A j \in InfoOf(id) : j <= i
        joined == {k \in 1..Len(status) :
                     /\ IsTruthy(Get(status[k], "station_id"))
                     /\ InfoOf(Get(status[k], "station_id")) # {}}
        Rank(k) == Cardinality({j \in joined : j <= k})
    IN /\ Len(combined.stations) = Cardinality(joined)
       /\ Len(combined.stations) <= Len(status)
       /\ \A k \in joined :
            LET rec == combined.stations[Rank(k)]
                last == info[LastOf(Get(status[k], "station_id"))]
            IN /\ KeysOf(rec) = KeysOf(last) \cup KeysOf(status[k])
               /\ \A key \in KeysOf(status[k]) : Get(rec, key) = Get(status[k], key)
               /\ \A key \in KeysOf(last) \ KeysOf(status[k]) :
                    Get(rec, key) = Get(last, key)

\* C27 witness: two information records of one station with different names,
\* and two status entries of that station of which the second has a name.
C27_Witness ==
  /\ pc = "combined" /\ combined.built
  /\ Len(feeds.info.stations) = 2
  /\ Get(feeds.info.stations[1], "name") = "n1"
  /\ Get(feeds.info.stations[2], "name") = "n2"
  /\ Len(combined.stations) = 2
  /\ Get(combined.stations[1], "name") = "n2"
  /\ Get(combined.stations[2], "name") = "ns"
  /\ Get(combined.stations[2], "num_bikes_available") = "3"

====
